---- MODULE Spec2Model ----
(***************************************************************************)
(* Model of the triphoto front end: the batch uploader of PhotoUpload (the *)
(* logging variant uploadFilesWithLogging and the plain variant            *)
(* uploadFilesInBatches), and the reaction handling of PhotoGallery.       *)
(* The back end (FastAPI) is not part of the sources; its ingestion,       *)
(* session store and reaction store are modelled from the specification.   *)
(***************************************************************************)
EXTENDS Integers, Sequences, FiniteSets, Bags, TLC

(* ------------------------------ bounds -------------------------------- *)

\* largest number of files selected for one upload
MaxFiles == 11

\* largest number of uploads of one run that fail for a reason other than
\* duplicate content (network, storage, validation on the server)
MaxFaults == 2

\* largest number of like/dislike clicks of one gallery session
MaxClicks == 3

\* files selected where the upload button is pressed more than once
MaxAgainFiles == 6

(* ------------------------- program constants -------------------------- *)

BATCH_SIZE == 5

VARIABLES
  impl,            \* which PhotoUpload component is built: "logging" | "batches"
  selectedFiles,   \* the selected files, each given by its content fingerprint
  files,           \* handleUpload's files = Array.from(selectedFiles)
  upc,             \* position of handleUpload / the batch function
  uploading,       \* PhotoUpload.uploading
  uploadProgress,  \* PhotoUpload.uploadProgress (percent)
  session,         \* the UploadSession row of this run (server)
  logs,            \* the UploadLog rows created by createLog, in file order
  i,               \* loop index of the batch loop (0-based offset of the batch)
  outcome,         \* per file: result of its upload promise
  submitted,       \* per file: how many upload requests were sent for it
  counted,         \* per file: how often its result was tallied, and as what
  completedCount,  \* uploadFilesWithLogging.completedCount / completedFiles
  failedCount,     \* uploadFilesWithLogging.failedCount
  failedLogs,      \* uploadFilesWithLogging.failedLogs: entries per file index
  skippedFiles,    \* uploadFilesInBatches.skippedFiles
  errors,          \* uploadFilesInBatches.errors: entries per file index
  batchLog,        \* sizes of the sub-batches started, in order
  delays,          \* numbers of the sub-batches after which the delay was awaited
  uploadResult,    \* PhotoUpload.uploadResult / the value the batch function returned
  roomPhotos,      \* Photo rows of the room (server): rows per fingerprint
  faults,          \* non-duplicate failures injected so far
  uploadLogs,      \* the UploadLog objects createLog returned (logs / uploadLogs)
  pendingLogs,     \* retryFailedUploads.pendingLogs, as file indices
  retrySuccessCount, \* retryFailedUploads.retrySuccessCount
  retryFailCount   \* retryFailedUploads.retryFailCount

retryVars == <<uploadLogs, pendingLogs, retrySuccessCount, retryFailCount>>

VARIABLES
  apiCall,         \* the arguments of a call of photoApi.uploadPhoto
  apiState,        \* position of that call
  apiError,        \* message of the Error the call threw ("" for none)
  apiPosts,        \* POST /photos/{roomId}/upload requests sent by the call
  apiPhotos        \* Photos the call has created

apiVars == <<apiCall, apiState, apiError, apiPosts, apiPhotos>>

VARIABLES
  rooms,            \* the rooms that exist on the server
  localUserName,    \* localStorage 'userName'
  roomUsers,        \* localStorage 'roomUsers': room id -> user name
  autoLogin,        \* sessionStorage 'autoLogin_<room id>'
  route,            \* the page the router shows: "home" or "room"
  roomId,           \* RoomPage: useParams().roomId
  isCreator,        \* RoomPage: the page was opened with ?creator=true
  loading,          \* RoomPage state loading
  showLoginModal,   \* RoomPage state showLoginModal
  room,             \* RoomPage state room (the id of the room loaded, or NoRoom)
  lpc,              \* position of the page's effect and of its async handlers
  loginName,        \* argument of the last call of handleLogin
  photosFor,        \* user name the photos of the room were requested for
  modalError,       \* UserLoginModal state error (set or not)
  lastRequest       \* the last upload or toggle request sent: room and user name

loginVars == <<rooms, localUserName, roomUsers, autoLogin, route, roomId, isCreator,
               loading, showLoginModal, room, lpc, loginName, photosFor, modalError,
               lastRequest>>

uploadVars == <<impl, selectedFiles, files, upc, uploading, uploadProgress, session, logs,
                i, outcome, submitted, counted, completedCount, failedCount,
                failedLogs, skippedFiles, errors, batchLog, delays, uploadResult,
                roomPhotos, faults, retryVars, apiVars, loginVars>>

VARIABLES
  likes,           \* Reaction rows of kind Like (server): users per photo
  dislikes,        \* Reaction rows of kind Dislike (server): users per photo
  like_count,      \* Photo.like_count (server)
  dislike_count,   \* Photo.dislike_count (server)
  photos,          \* RoomPage.photos: the photo list fetched last
  selectedUploader,\* RoomPage.selectedUploader ("none" for null)
  activeTab,       \* RoomPage.activeTab; PhotoGallery is mounted iff "gallery"
  refresh,         \* the fetch of handleUploadSuccess: its stage and the list fetched
  localPhotos,     \* PhotoGallery.localPhotos
  userLikes,       \* PhotoGallery.userLikes
  userDislikes,    \* PhotoGallery.userDislikes
  likesLoaded,     \* PhotoGallery.likesLoaded
  toggles,         \* bag of the like/dislike requests that are in flight
  clicks,          \* like/dislike clicks so far
  probe            \* observer: the last run of toggles made one after the other

galleryVars == <<likes, dislikes, like_count, dislike_count, photos,
                 selectedUploader, activeTab, refresh, localPhotos, userLikes,
                 userDislikes, likesLoaded, toggles, clicks, probe>>

vars == <<uploadVars, galleryVars>>

(* ------------------------------ helpers ------------------------------- *)

Range(s) == {s[k] : k \in DOMAIN s}

Min(a, b) == IF a < b THEN a ELSE b

NoSession == [status |-> "none", total_files |-> 0, completed_files |-> 0,
              failed_files |-> 0]

NoResult == [set |-> FALSE, total_files |-> 0, successful_uploads |-> 0,
             failed_uploads |-> 0, failed_files |-> <<>>]

\* what a settled upload can be tallied as
Kinds == {"completed", "failed", "skipped", "error"}

NotCounted == [kd \in Kinds |-> 0]

\* n files of pairwise distinct content
Distinct(n) == [k \in 1..n |-> k]

\* n files, file k carrying the same bytes as the first file, the others distinct
WithDup(n, k) == [x \in 1..n |-> IF x = k THEN 1 ELSE x]

\* the file lists a user may select (WithDup(n, 1) is Distinct(n))
FileLists == UNION {{WithDup(n, k) : k \in 1..n} : n \in 1..MaxFiles}

\* the content fingerprints that occur
Fingerprints == 1..MaxFiles

\* sum of f[k] over the indices k of the set
RECURSIVE SumOver(_, _)
SumOver(f, set) ==
  IF set = {} THEN 0
  ELSE LET m == CHOOSE x \in set : TRUE IN f[m] + SumOver(f, set \ {m})

\* number of entries of a per-index tally
Entries(f) == SumOver(f, DOMAIN f)

(* --------------------- back end (from the spec) ----------------------- *)

\* Ingestion step 2: a Photo with this fingerprint already exists in the room
\* (variant: the dedup check finds nothing)
IsDuplicateNever(fp, rows) == FALSE

IsDuplicate(fp, rows) == rows[fp] > 0

\* Ingestion of one file: the results the pipeline may produce for fingerprint
\* fp, each with the Photo rows it leaves.  The dedup check and the insertion
\* are one atomic unit (uniqueness constraint on (room, fingerprint)).
Ingest(fp, rows, mayFail) ==
  (IF IsDuplicate(fp, rows)
     THEN {[result |-> "dup", photos |-> rows]}
     ELSE {[result |-> "ok", photos |-> [rows EXCEPT ![fp] = @ + 1]]})
  \cup
  (IF mayFail THEN {[result |-> "err", photos |-> rows]} ELSE {})

\* UploadLog row as createLog returns it
NewLog == [status |-> "pending", photo_id |-> 0, error_message |-> "", retry_count |-> 0]

\* retryFailedUploads(log_ids) of the Tracker: the named logs that are Failed
\* become Retrying, their error is cleared and their retry_count goes up
RetriedLogs(rows, ids) ==
  [k \in DOMAIN rows |->
     IF k \in ids /\ rows[k].status = "failed"
       THEN [rows[k] EXCEPT !.status = "retrying", !.error_message = "",
                            !.retry_count = @ + 1]
       ELSE rows[k]]

\* (variant: a retry reopens the session of the logs)
SessionAfterRetryReopened(sess) == [sess EXCEPT !.status = "in_progress"]

\* the UploadSession of the logs after retryFailedUploads: a terminal session
\* is immutable, the retry touches the logs only
SessionAfterRetry(sess) == sess

\* UploadLog row after the upload with that log id ended with result r
LogAfter(log, r, fp) ==
  IF r = "ok"
    THEN [log EXCEPT !.status = "success", !.photo_id = fp]
    ELSE [log EXCEPT !.status = "failed",
                     !.error_message = IF r = "dup" THEN "duplicate" ELSE "error"]

(* ------------------- PhotoUpload: shared batch logic ------------------- *)

\* (variant: the slice starts one element early, files.slice(i - 1, ...))
BatchOfOverlapping(off, n) == (IF off = 0 THEN 1 ELSE off)..Min(off + BATCH_SIZE, n)

\* files.slice(i, i + BATCH_SIZE), as 1-based file indices
BatchOf(off, n) == (off + 1)..Min(off + BATCH_SIZE, n)

\* (variant: the pairs are built against the log list in reverse)
fileLogPairsReversed(k, n) == n + 1 - k

\* fileLogPairs = files.map((file, index) => ({ file, log: logs[index] })):
\* the log that file k of n is paired with
fileLogPairs(k, n) == k

\* for (let i = 0; i < fileLogPairs.length; ...)
LoopContinues(off, n) == off < n

\* (variant: <= in place of <)
MoreBatchesOffByOne(off, n) == off + BATCH_SIZE <= n

\* if (i + BATCH_SIZE < fileLogPairs.length): a further batch follows
MoreBatches(off, n) == off + BATCH_SIZE < n

\* (variant: Promise.race, the first settled promise resumes the loop)
AnySettled(batch, out) == \E k \in batch : out[k] \in {"ok", "dup", "err"}

\* await Promise.allSettled(batchPromises): every promise of the batch settled
AllSettled(batch, out) == \A k \in batch : out[k] \in {"ok", "dup", "err"}

\* (variant: Promise.all over callbacks that let the error escape)
BatchRejectsOnFailure(batch, out) == \E k \in batch : out[k] # "ok"

\* Promise.allSettled never rejects, and each promise catches its own error
BatchRejects(batch, out) == FALSE

\* Math.round((processedFiles / files.length) * 100)
progressPercent(processed, total) == (200 * processed + total) \div (2 * total)

(* --------------- PhotoUpload (logging): decision points ---------------- *)

\* (variant: only rejected promises count as failed; a caught failure,
\* fulfilled with success: false, is counted as nothing)
ResultKindRejectedOnly(r) == IF r = "ok" THEN "completed" ELSE "uncounted"

\* batchResults.forEach: what one settled result is counted as
ResultKind(r) == IF r = "ok" THEN "completed" ELSE "failed"

\* (variant: the catch closes the session as failed)
SessionAfterCatchFailed(sess) ==
  IF sess.status = "in_progress" THEN [sess EXCEPT !.status = "failed"] ELSE sess

\* catch (error) { console.error(...); throw new Error(...) } of
\* uploadFilesWithLogging: no call of the session tracker, the session is left
\* as it is
SessionAfterCatch(sess) == sess

\* (variant: the test of completedCount left out)
finalStatusTwoWay(completed, failed) ==
  IF failed = 0 THEN "completed" ELSE "partially_failed"

\* const finalStatus = failedCount === 0 ? ... : completedCount === 0 ? ...
finalStatus(completed, failed) ==
  IF failed = 0 THEN "completed"
  ELSE IF completed = 0 THEN "failed" ELSE "partially_failed"

(* --------------- PhotoUpload (batches): decision points ---------------- *)

\* (variant: the slices have no end, files.slice(i))
batchesSlicedToEnd(n) ==
  LET offs == {x \in 0..(n - 1) : x % BATCH_SIZE = 0}
  IN [b \in 1..Cardinality(offs) |-> ((b - 1) * BATCH_SIZE + 1)..n]

\* for (let i = 0; i < files.length; i += BATCH_SIZE) batches.push(files.slice(...))
batches(n) ==
  LET offs == {x \in 0..(n - 1) : x % BATCH_SIZE = 0}
  IN [b \in 1..Cardinality(offs) |-> BatchOf((b - 1) * BATCH_SIZE, n)]

\* if (batchIndex < batches.length - 1): a further batch follows
MoreBatchesInBatches(b, nb) == b < nb - 1

\* batchResults.forEach of uploadFilesInBatches: 409 is a skipped duplicate
ResultKindInBatches(r) ==
  IF r = "ok" THEN "completed" ELSE IF r = "dup" THEN "skipped" ELSE "error"

\* the tallies of the files of a batch, each counted once more as kindOf[file]
CountedAfter(cnt, kindOf) ==
  [k \in DOMAIN cnt |->
     IF k \in DOMAIN kindOf
       THEN [kd \in Kinds |-> cnt[k][kd] + (IF kd = kindOf[k] THEN 1 ELSE 0)]
       ELSE cnt[k]]

\* how many results of the batch are tallied as kd
NumOfKind(kindOf, kd) == Cardinality({k \in DOMAIN kindOf : kindOf[k] = kd})

\* (variant: the log of a failed file is pushed twice)
PushAllTwice(f, set) == [k \in DOMAIN f |-> f[k] + (IF k \in set THEN 2 ELSE 0)]

\* the tally f with one more entry for every index of the set
PushAll(f, set) == [k \in DOMAIN f |-> f[k] + (IF k \in set THEN 1 ELSE 0)]

(* ------------------ api.ts: validateInput, photoApi ------------------ *)

\* strings are sequences of characters; a character is written as a
\* one-character string, or by its code point where it is not ASCII
Repeat(ch, n) == [k \in 1..n |-> ch]

\* [0-9a-f] with the flag i
HexChars == {"0", "9", "a", "f", "A", "F"}

\* [U+AC00-U+D7A3a-zA-Z0-9._-]
NameChars == HexChars \cup {"g", "z", "Z", "U+AC00", "U+D7A3", ".", "_", "-"}

\* String.prototype.includes
Includes(str, sub) ==
  \E k \in 0..(Len(str) - Len(sub)) : SubSeq(str, k + 1, k + Len(sub)) = sub

\* /^[0-9a-f]{8}-[0-9a-f]{4}-[0-9a-f]{4}-[0-9a-f]{4}-[0-9a-f]{12}$/i.test(roomId)
validateInputRoomId(rid) ==
  /\ Len(rid) = 36
  /\ \A k \in 1..36 : IF k \in {9, 14, 19, 24} THEN rid[k] = "-"
                       ELSE rid[k] \in HexChars

\* userName.length >= 2 && userName.length <= 50 && /^[U+AC00-U+D7A3a-zA-Z0-9._-]+$/.test(userName)
validateInputUserName(name) ==
  /\ Len(name) >= 2
  /\ Len(name) <= 50
  /\ Len(name) >= 1 /\ \A k \in 1..Len(name) : name[k] \in NameChars

allowedTypes == {"image/jpeg", "image/jpg", "image/png", "image/gif", "image/webp"}

maxSize == 10 * 1024 * 1024

\* (variant: >= in place of >)
TooLargeInclusive(size) == size >= maxSize

\* file.size > maxSize
TooLarge(size) == size > maxSize

\* validateInput.file: the error of the first check that fails, "" when valid
validateInputFile(file) ==
  IF file.type \notin allowedTypes
    THEN "Invalid file type. Only JPEG, PNG, GIF, and WebP are allowed."
  ELSE IF TooLarge(file.size) THEN "File too large. Maximum size is 10MB."
  ELSE IF \/ Includes(file.name, <<".", ".">>)
          \/ Includes(file.name, <<"/">>)
          \/ Includes(file.name, <<"\\">>)
    THEN "Invalid filename."
  ELSE ""

\* a well-formed room id written with the one character ch
Uuid(ch) == [k \in 1..36 |-> IF k \in {9, 14, 19, 24} THEN "-" ELSE ch]

\* room ids a caller may pass: well-formed ones in both cases, and ones with
\* a character outside the hexadecimal digits, a missing separator, a
\* character too few, a character too many, or nothing at all
GoodRoomIds == {Uuid("a"), Uuid("F"), Uuid("0")}

BadRoomIds ==
  { [Uuid("a") EXCEPT ![1] = "g"], [Uuid("a") EXCEPT ![9] = "a"],
    SubSeq(Uuid("a"), 1, 35), Uuid("a") \o <<"a">>, <<>> }

RoomIds == GoodRoomIds \cup BadRoomIds

\* uploader names a caller may pass: of the shortest and the longest length
\* allowed, in Hangul, with the punctuation allowed; and too short, too
\* long, or with a character outside the class
GoodUserNames ==
  { Repeat("a", 2), Repeat("Z", 50), <<"U+AC00", "U+D7A3">>, <<"a", ".", "_", "-", "9">> }

BadUserNames ==
  { <<>>, Repeat("a", 1), Repeat("a", 51), <<"a", " ">>, <<"<", "a">>,
    <<"a", "/", "b">> }

UserNames == GoodUserNames \cup BadUserNames

\* files a caller may pass: content types inside and outside the allowed
\* set, sizes around the maximum, plain and suspicious names
ApiFiles ==
  [ type : allowedTypes \cup {"image/bmp", "application/pdf", ""},
    size : {0, maxSize - 1, maxSize, maxSize + 1},
    name : { <<"a", ".", "j">>, <<".", ".", "a">>, <<"a", "/", "b">>,
             <<"a", "\\", "b">> } ]

NoCall == [roomId |-> <<>>, file |-> [type |-> "", size |-> 0, name |-> <<>>],
           uploaderName |-> <<>>]

\* the checks of photoApi.uploadPhoto in their order: the message of the Error
\* thrown, "" when the request is sent
uploadPhotoError(rid, file, uploaderName) ==
  IF ~validateInputRoomId(rid) THEN "Invalid room ID format"
  ELSE IF ~validateInputUserName(uploaderName) THEN "Invalid username"
  ELSE validateInputFile(file)

(* ---------------------- rooms and names of sign-in -------------------- *)

\* the room ids of the server
Rooms == {Uuid("a"), Uuid("0")}

\* no room (null), and no name (null or the empty string)
NoRoom == <<>>

NoName == <<>>

\* the names a user may type: two names the format check accepts, and one
\* it refuses for being too short
Names == {Repeat("a", 2), Repeat("Z", 2)}

TypedNames == Names \cup {Repeat("a", 1)}

\* the room ids a user may type or open: the ids of the server and one that
\* is no UUID
TypedRooms == Rooms \cup {SubSeq(Uuid("a"), 1, 35)}

NoRequest == [room |-> NoRoom, name |-> NoName]

(* ------------------- room, photos and reactions ----------------------- *)

\* the photos of the room and the users who uploaded them (Photo.uploader_name)
Photos == {"P1", "P2"}

uploader_name == [p \in Photos |-> IF p = "P1" THEN "A" ELSE "B"]

\* the participants of the room; userName is the user of this browser
Users == {"A", "B"}

userName == "A"

OtherUsers == Users \ {userName}

\* the photo list of the room as served for user u: counters and u's status
getRoomPhotosWithUserStatus(u, lk, dl, lc, dc) ==
  [p \in Photos |-> [like_count |-> lc[p], dislike_count |-> dc[p],
                     user_liked |-> u \in lk[p], user_disliked |-> u \in dl[p]]]

\* toggle(kind, photo, user) of the Reaction Store, on the rows of one kind:
\* an existing reaction is deleted, an absent one is created
ToggledRows(rows, p, u) ==
  [rows EXCEPT ![p] = IF u \in @ THEN @ \ {u} ELSE @ \cup {u}]

\* ... and the counter of that kind moves with the row, in the same transaction
ToggledCount(count, rows, p, u) ==
  [count EXCEPT ![p] = IF u \in rows[p] THEN @ - 1 ELSE @ + 1]

(* --------------------- RoomPage: decision points ---------------------- *)

\* filteredPhotos: the photos handed to PhotoGallery
filteredPhotos(ph, sel) ==
  IF sel = "none" THEN ph
  ELSE [p \in {q \in DOMAIN ph : uploader_name[q] = sel} |-> ph[p]]

\* no fetch of handleUploadSuccess is in flight
NoRefresh == [stage |-> "none", photosData |-> <<>>]

\* handleParticipantClick: clicking the selected participant clears the filter
UploaderAfterClick(sel, name) == IF sel = name THEN "none" ELSE name

(* ------------------- PhotoGallery: decision points -------------------- *)

\* the state of a PhotoGallery that is not mounted
NoGallery == [localPhotos |-> <<>>, userLikes |-> {}, userDislikes |-> {},
              likesLoaded |-> FALSE]

\* useState initial values of a PhotoGallery mounted with the prop photos
MountedGallery(prop) == [localPhotos |-> prop, userLikes |-> {}, userDislikes |-> {},
                         likesLoaded |-> FALSE]

\* useEffect([photos, localPhotos]): the prop is taken over only when its set
\* of photo ids differs from that of localPhotos
PhotosEffect(prop, g) ==
  IF DOMAIN prop # DOMAIN g.localPhotos
    THEN IF DOMAIN prop # {}
           THEN [localPhotos |-> prop,
                 userLikes |-> {p \in DOMAIN prop : prop[p].user_liked},
                 userDislikes |-> {p \in DOMAIN prop : prop[p].user_disliked},
                 likesLoaded |-> TRUE]
           ELSE [g EXCEPT !.localPhotos = prop, !.likesLoaded = FALSE]
    ELSE g

\* visiblePhotos = localPhotos.filter(photo => photo.dislike_count === 0)
VisibleIn(lp) == {p \in DOMAIN lp : lp[p].dislike_count = 0}

\* setUserLikes(prev => ...): the id is removed when present, added when absent
ToggledSet(prev, p) == IF p \in prev THEN prev \ {p} ELSE prev \cup {p}

\* (variant: the counter is raised whatever the flag)
CountAfterAlwaysUp(count, isActive) == count + 1

\* isLiked ? photo.like_count - 1 : photo.like_count + 1
CountAfter(count, isActive) == IF isActive THEN count - 1 ELSE count + 1

\* (variant: like and dislike exclude each other, a like clears the dislikes)
WithLikeCountExclusive(photo, isLiked) ==
  [photo EXCEPT !.like_count = CountAfter(@, isLiked), !.dislike_count = 0]

\* {...photo, like_count: isLiked ? photo.like_count - 1 : photo.like_count + 1}
WithLikeCount(photo, isLiked) == [photo EXCEPT !.like_count = CountAfter(@, isLiked)]

\* {...photo, dislike_count: isDisliked ? ... - 1 : ... + 1}
WithDislikeCount(photo, isDisliked) ==
  [photo EXCEPT !.dislike_count = CountAfter(@, isDisliked)]

\* observer of toggles made one after the other: nothing observed
NoValues == [count |-> 0, active |-> FALSE, shown |-> 0, flag |-> FALSE]

NoProbe == [kind |-> "none", photo |-> "none", n |-> 0, first |-> NoValues,
            last |-> NoValues]

N == Len(files)

(* ------------------------------- Init --------------------------------- *)

\* PhotoUpload before anything was selected
UploadIdle ==
  /\ selectedFiles = <<>>
  /\ files = <<>>
  /\ upc = "idle"
  /\ uploading = FALSE
  /\ uploadProgress = 0
  /\ session = NoSession
  /\ logs = <<>>
  /\ i = 0
  /\ outcome = <<>>
  /\ submitted = <<>>
  /\ counted = <<>>
  /\ completedCount = 0
  /\ failedCount = 0
  /\ failedLogs = <<>>
  /\ skippedFiles = 0
  /\ errors = <<>>
  /\ batchLog = <<>>
  /\ delays = <<>>
  /\ uploadResult = NoResult
  /\ roomPhotos = [fp \in Fingerprints |-> 0]
  /\ faults = 0
  /\ uploadLogs = <<>>
  /\ pendingLogs = {}
  /\ retrySuccessCount = 0
  /\ retryFailCount = 0

\* photoApi.uploadPhoto has not been called
ApiIdle ==
  /\ apiCall = NoCall
  /\ apiState = "idle"
  /\ apiError = ""
  /\ apiPosts = 0
  /\ apiPhotos = 0

\* the pages of sign-in are not under study: the user is in the room
LoginIdle ==
  /\ rooms = {}
  /\ localUserName = NoName
  /\ roomUsers = [r \in Rooms |-> NoName]
  /\ autoLogin = [r \in Rooms |-> NoName]
  /\ route = "room"
  /\ roomId = NoRoom
  /\ isCreator = FALSE
  /\ loading = FALSE
  /\ showLoginModal = FALSE
  /\ room = NoRoom
  /\ lpc = "idle"
  /\ loginName = NoName
  /\ photosFor = NoName
  /\ modalError = FALSE
  /\ lastRequest = NoRequest

\* the room as the page has loaded it, with the reactions of the other users
\* (P1 may carry likes of theirs, P2 dislikes); the user of this browser has
\* entered the room for the first time
RoomLoaded ==
  /\ likes \in {rows \in [Photos -> SUBSET OtherUsers] : rows["P2"] = {}}
  /\ dislikes \in {rows \in [Photos -> SUBSET OtherUsers] : rows["P1"] = {}}
  /\ like_count = [p \in Photos |-> Cardinality(likes[p])]
  /\ dislike_count = [p \in Photos |-> Cardinality(dislikes[p])]
  /\ photos = getRoomPhotosWithUserStatus(userName, likes, dislikes, like_count,
                                          dislike_count)
  /\ selectedUploader = "none"
  /\ refresh = NoRefresh
  /\ toggles = EmptyBag
  /\ clicks = 0
  /\ probe = NoProbe

\* the upload tab is open: PhotoUpload is mounted, PhotoGallery is not
InitUpload ==
  /\ impl \in {"logging", "batches"}
  /\ UploadIdle
  /\ ApiIdle
  /\ LoginIdle
  /\ likes = [p \in Photos |-> {}]
  /\ dislikes = [p \in Photos |-> {}]
  /\ RoomLoaded
  /\ activeTab = "upload"
  /\ localPhotos = NoGallery.localPhotos
  /\ userLikes = NoGallery.userLikes
  /\ userDislikes = NoGallery.userDislikes
  /\ likesLoaded = NoGallery.likesLoaded

\* the gallery tab is open (the initial activeTab): PhotoGallery is mounted
\* with the photos the page has loaded
InitGallery ==
  /\ impl = "logging"
  /\ UploadIdle
  /\ ApiIdle
  /\ LoginIdle
  /\ RoomLoaded
  /\ activeTab = "gallery"
  /\ localPhotos = MountedGallery(filteredPhotos(photos, selectedUploader)).localPhotos
  /\ userLikes = MountedGallery(photos).userLikes
  /\ userDislikes = MountedGallery(photos).userDislikes
  /\ likesLoaded = MountedGallery(photos).likesLoaded

\* a caller is about to run photoApi.uploadPhoto(roomId, file, uploaderName)
\* on arguments nothing has validated yet
InitApi ==
  /\ impl = "batches"
  /\ UploadIdle
  /\ likes = [p \in Photos |-> {}]
  /\ dislikes = [p \in Photos |-> {}]
  /\ RoomLoaded
  /\ activeTab = "upload"
  /\ localPhotos = NoGallery.localPhotos
  /\ userLikes = NoGallery.userLikes
  /\ userDislikes = NoGallery.userDislikes
  /\ likesLoaded = NoGallery.likesLoaded
  /\ LoginIdle
  /\ apiCall \in [roomId : RoomIds, file : ApiFiles, uploaderName : UserNames]
  /\ apiState = "called"
  /\ apiError = ""
  /\ apiPosts = 0
  /\ apiPhotos = 0

(* ----------------------- api.ts: photoApi.uploadPhoto ------------------ *)

\* photoApi.uploadPhoto up to the request: the three checks throw before the
\* FormData is built; otherwise api.post sends the request
uploadPhoto ==
  /\ apiState = "called"
  /\ LET error == uploadPhotoError(apiCall.roomId, apiCall.file,
                                   apiCall.uploaderName)
     IN IF error # ""
          THEN /\ apiState' = "thrown"
               /\ apiError' = error
               /\ UNCHANGED apiPosts
          ELSE /\ apiState' = "posted"
               /\ apiPosts' = apiPosts + 1
               /\ UNCHANGED apiError
  /\ UNCHANGED <<apiCall, apiPhotos, galleryVars, loginVars, impl, selectedFiles, files,
                 upc, uploading, uploadProgress, session, logs, i, outcome,
                 submitted, counted, completedCount, failedCount, failedLogs,
                 skippedFiles, errors, batchLog, delays, uploadResult,
                 roomPhotos, faults, retryVars>>

\* the server answers the request: the Photo is created, or the request is
\* refused (duplicate content, storage error)
uploadPhotoAnswered ==
  /\ apiState = "posted"
  /\ \E created \in BOOLEAN :
       /\ apiPhotos' = IF created THEN apiPhotos + 1 ELSE apiPhotos
       /\ apiState' = IF created THEN "resolved" ELSE "rejected"
  /\ UNCHANGED <<apiCall, apiError, apiPosts, galleryVars, loginVars, impl, selectedFiles,
                 files, upc, uploading, uploadProgress, session, logs, i,
                 outcome, submitted, counted, completedCount, failedCount,
                 failedLogs, skippedFiles, errors, batchLog, delays,
                 uploadResult, roomPhotos, faults, retryVars>>

NextApi ==
  \/ uploadPhoto
  \/ uploadPhotoAnswered

SpecApi == InitApi /\ [][NextApi]_vars

(* ------------------ PhotoUpload: selecting the files ------------------- *)

\* processFiles: the valid files become the selection
processFiles ==
  /\ upc = "idle"
  /\ ~uploading
  /\ selectedFiles = <<>>
  /\ \E fs \in FileLists : selectedFiles' = fs
  /\ UNCHANGED <<galleryVars, apiVars, loginVars, retryVars, impl, files, upc, uploading, uploadProgress, session, logs, i,
                 outcome, submitted, counted, completedCount, failedCount, failedLogs, skippedFiles, errors,
                 batchLog, delays, uploadResult, roomPhotos, faults>>

(* ------------- PhotoUpload (logging): handleUpload and ----------------- *)
(* ------------------- uploadFilesWithLogging ---------------------------- *)

\* handleUpload up to the call of uploadFilesWithLogging
handleUpload ==
  /\ impl = "logging"
  /\ upc = "idle"
  /\ Len(selectedFiles) > 0
  /\ uploading' = TRUE
  /\ uploadResult' = NoResult
  /\ uploadProgress' = 0
  /\ files' = selectedFiles
  /\ outcome' = [k \in 1..Len(selectedFiles) |-> "none"]
  /\ submitted' = [k \in 1..Len(selectedFiles) |-> 0]
  /\ counted' = [k \in 1..Len(selectedFiles) |-> NotCounted]
  /\ failedLogs' = [k \in 1..Len(selectedFiles) |-> 0]
  /\ upc' = "createSession"
  /\ UNCHANGED <<galleryVars, apiVars, loginVars, retryVars, impl, selectedFiles, session, logs, i,
                 completedCount, failedCount, skippedFiles, errors,
                 batchLog, delays, roomPhotos, faults>>

\* step 1: uploadSessionApi.createSession answers, or throws
createSession ==
  /\ upc = "createSession"
  /\ \/ /\ session' = [status |-> "in_progress", total_files |-> N,
                       completed_files |-> 0, failed_files |-> 0]
        /\ upc' = "createLogs"
     \/ /\ upc' = "threw"
        /\ UNCHANGED session
  /\ UNCHANGED <<galleryVars, apiVars, loginVars, retryVars, impl, selectedFiles, files, uploading, uploadProgress, logs, i, outcome,
                 submitted, counted, completedCount, failedCount, failedLogs,
                 skippedFiles, errors, batchLog, delays, uploadResult, roomPhotos,
                 faults>>

\* step 2: one uploadLogApi.createLog per file, in file order; each may throw
createLog ==
  /\ upc = "createLogs"
  /\ Len(logs) < N
  /\ \/ /\ logs' = Append(logs, NewLog)
        /\ uploadLogs' = Append(uploadLogs, NewLog)
        /\ upc' = IF Len(logs) + 1 = N THEN "loop" ELSE "createLogs"
     \/ /\ upc' = "threw"
        /\ UNCHANGED <<logs, uploadLogs>>
  /\ i' = 0
  /\ UNCHANGED <<galleryVars, apiVars, loginVars, pendingLogs, retrySuccessCount, retryFailCount,
                 impl, selectedFiles, files, uploading, uploadProgress, session, outcome,
                 submitted, counted, completedCount, failedCount, failedLogs,
                 skippedFiles, errors, batchLog, delays, uploadResult, roomPhotos,
                 faults>>

\* step 3, head of the loop body: batch.map starts the upload of every file of
\* the batch (each async callback runs up to its await)
startBatch ==
  /\ impl = "logging"
  /\ upc = "loop"
  /\ LoopContinues(i, N)
  /\ LET batch == BatchOf(i, N) IN
       /\ outcome' = [k \in 1..N |-> IF k \in batch THEN "pending" ELSE outcome[k]]
       /\ submitted' = [k \in 1..N |-> submitted[k] + (IF k \in batch THEN 1 ELSE 0)]
       /\ logs' = [j \in 1..N |->
                     IF \E k \in batch : fileLogPairs(k, N) = j
                       THEN [logs[j] EXCEPT !.status = "uploading"]
                       ELSE logs[j]]
       /\ batchLog' = Append(batchLog, Cardinality(batch))
  /\ upc' = "await"
  /\ UNCHANGED <<galleryVars, apiVars, loginVars, retryVars, impl, selectedFiles, files, uploading, uploadProgress, session, i, counted,
                 completedCount, failedCount, failedLogs, skippedFiles, errors,
                 delays, uploadResult, roomPhotos, faults>>

\* photoApiEnhanced.uploadPhotoWithLogging of file k answers: the callback
\* returns {success: true}, or its catch pushes the log and returns {success: false}
uploadSettled(k) ==
  /\ impl = "logging"
  /\ upc = "await"
  /\ outcome[k] = "pending"
  /\ \E r \in Ingest(files[k], roomPhotos, faults < MaxFaults) :
       /\ outcome' = [outcome EXCEPT ![k] = r.result]
       /\ roomPhotos' = r.photos
       /\ logs' = [logs EXCEPT ![fileLogPairs(k, N)] = LogAfter(@, r.result, files[k])]
       /\ failedLogs' = IF r.result = "ok" THEN failedLogs
                        ELSE PushAll(failedLogs, {fileLogPairs(k, N)})
       /\ faults' = faults + (IF r.result = "err" THEN 1 ELSE 0)
  /\ UNCHANGED <<galleryVars, apiVars, loginVars, retryVars, impl, selectedFiles, files, upc, uploading, uploadProgress, session, i,
                 submitted, counted, completedCount, failedCount, skippedFiles,
                 errors, batchLog, delays, uploadResult>>

\* Promise.allSettled resolves: tally the batch, update the progress, and either
\* start the delay or go on to the loop head
batchSettled ==
  /\ impl = "logging"
  /\ upc = "await"
  /\ LET batch == BatchOf(i, N)
         kindOf == [k \in batch |-> ResultKind(outcome[k])]
     IN
       /\ AllSettled(batch, outcome)
       /\ IF BatchRejects(batch, outcome)
            THEN /\ upc' = "threw"
                 /\ UNCHANGED <<completedCount, failedCount, counted, uploadProgress, i>>
            ELSE /\ completedCount' =
                      completedCount + NumOfKind(kindOf, "completed")
                 /\ failedCount' =
                      failedCount + NumOfKind(kindOf, "failed")
                 /\ counted' = CountedAfter(counted, kindOf)
                 /\ uploadProgress' = progressPercent(completedCount' + failedCount', N)
                 /\ IF MoreBatches(i, N)
                      THEN upc' = "delay" /\ i' = i
                      ELSE upc' = "loop" /\ i' = i + BATCH_SIZE
  /\ UNCHANGED <<galleryVars, apiVars, loginVars, retryVars, impl, selectedFiles, files, uploading, session, logs, outcome, submitted,
                 failedLogs, skippedFiles, errors, batchLog, delays, uploadResult,
                 roomPhotos, faults>>

\* await new Promise(resolve => setTimeout(resolve, BATCH_DELAY)), then i += BATCH_SIZE
batchDelay ==
  /\ impl = "logging"
  /\ upc = "delay"
  /\ delays' = Append(delays, Len(batchLog))
  /\ i' = i + BATCH_SIZE
  /\ upc' = "loop"
  /\ UNCHANGED <<galleryVars, apiVars, loginVars, retryVars, impl, selectedFiles, files, uploading, uploadProgress, session, logs,
                 outcome, submitted, counted, completedCount, failedCount, failedLogs,
                 skippedFiles, errors, batchLog, uploadResult, roomPhotos, faults>>

\* step 4: uploadSessionApi.updateSession answers and the result is set, or throws
updateSession ==
  /\ impl = "logging"
  /\ upc = "loop"
  /\ ~LoopContinues(i, N)
  /\ \/ /\ session' = [session EXCEPT
                         !.completed_files = completedCount,
                         !.failed_files = failedCount,
                         !.status = finalStatus(completedCount, failedCount)]
        /\ uploadResult' = [set |-> TRUE, total_files |-> N,
                            successful_uploads |-> completedCount,
                            failed_uploads |-> failedCount,
                            failed_files |-> failedLogs]
        /\ uploadProgress' = 100
        /\ upc' = "returned"
     \/ /\ upc' = "threw"
        /\ UNCHANGED <<session, uploadResult, uploadProgress>>
  /\ UNCHANGED <<galleryVars, apiVars, loginVars, retryVars, impl, selectedFiles, files, uploading, logs, i, outcome, submitted, counted,
                 completedCount, failedCount, failedLogs, skippedFiles, errors,
                 batchLog, delays, roomPhotos, faults>>

\* handleUpload after uploadFilesWithLogging returned, and its finally
handleUploadReturned ==
  /\ impl = "logging"
  /\ upc = "returned"
  /\ selectedFiles' = IF uploadResult.failed_uploads = 0 THEN <<>> ELSE selectedFiles
  /\ uploading' = FALSE
  /\ upc' = "done"
  /\ UNCHANGED <<galleryVars, apiVars, loginVars, retryVars, impl, files, uploadProgress, session, logs, i, outcome, submitted, counted,
                 completedCount, failedCount, failedLogs, skippedFiles, errors,
                 batchLog, delays, uploadResult, roomPhotos, faults>>

\* (variant: handleUpload without its finally block, the flag is reset only
\* after the try block has run to its end)
uploadingWithoutFinally(flag) == flag

\* finally { setUploading(false) }: runs also when the catch block ran
uploadingAfterFinally(flag) == FALSE

\* handleUpload's catch of the error uploadFilesWithLogging rethrew, and its finally
handleUploadCatch ==
  /\ upc = "threw"
  /\ session' = SessionAfterCatch(session)
  /\ uploading' = uploadingAfterFinally(uploading)
  /\ upc' = "done"
  /\ UNCHANGED <<galleryVars, apiVars, loginVars, retryVars, impl, selectedFiles, files, uploadProgress, logs, i, outcome,
                 submitted, counted, completedCount, failedCount, failedLogs,
                 skippedFiles, errors, batchLog, delays, uploadResult, roomPhotos,
                 faults>>

\* the UploadLog object reported for file k in uploadResult.failed_files:
\* failedLogs.push(log) pushes the object of fileLogPairs, which is the one
\* createLog returned
ReportedLog(k) == uploadLogs[k]

(* ------------- PhotoUpload (logging): retryFailedUploads -------------- *)

\* (variant: the logs the retry has reset are the ones selected)
SelectedForRetryRetrying(rows) == {k \in DOMAIN rows : rows[k].status = "retrying"}

\* updatedLogs.filter(log => log.status === 'pending')
SelectedForRetry(rows) == {k \in DOMAIN rows : rows[k].status = "pending"}

\* uploadResult.failed_files.map(log => log.id), as file indices
failedLogIds == {k \in DOMAIN uploadResult.failed_files : uploadResult.failed_files[k] > 0}

\* retryFailedUploads up to its first await: the retry button is clicked
retryFailedUploads ==
  /\ impl = "logging"
  /\ upc = "done"
  /\ ~uploading
  /\ uploadResult.set
  /\ failedLogIds # {}
  /\ upc' = "retryRequest"
  /\ UNCHANGED <<galleryVars, apiVars, loginVars, retryVars, impl, selectedFiles, files, uploading,
                 uploadProgress, session, logs, i, outcome, submitted, counted,
                 completedCount, failedCount, failedLogs, skippedFiles, errors,
                 batchLog, delays, uploadResult, roomPhotos, faults>>

\* uploadLogApi.retryFailedUploads answers: the Tracker has reset the logs,
\* setUploading(true), setUploadResult(null); or it throws
retryRequested ==
  /\ upc = "retryRequest"
  /\ \/ /\ logs' = RetriedLogs(logs, failedLogIds)
        /\ session' = SessionAfterRetry(session)
        /\ uploading' = TRUE
        /\ uploadResult' = NoResult
        /\ upc' = "getSessionLogs"
        /\ UNCHANGED faults
     \/ /\ faults < MaxFaults
        /\ faults' = faults + 1
        /\ upc' = "retryThrew"
        /\ UNCHANGED <<logs, session, uploading, uploadResult>>
  /\ UNCHANGED <<galleryVars, apiVars, loginVars, retryVars, impl, selectedFiles, files,
                 uploadProgress, i, outcome, submitted, counted,
                 completedCount, failedCount, failedLogs, skippedFiles, errors,
                 batchLog, delays, roomPhotos>>

\* uploadLogApi.getSessionLogs answers: the pending logs are selected, the loop
\* over them counts each as a success without uploading anything, the alert
\* reports the counts and the finally resets uploading; or it throws
getSessionLogs ==
  /\ upc = "getSessionLogs"
  /\ \/ /\ pendingLogs' = SelectedForRetry(logs)
        /\ retrySuccessCount' = Cardinality(SelectedForRetry(logs))
        /\ retryFailCount' = 0
        /\ uploading' = FALSE
        /\ upc' = "done"
        /\ UNCHANGED faults
     \/ /\ faults < MaxFaults
        /\ faults' = faults + 1
        /\ upc' = "retryThrew"
        /\ UNCHANGED <<pendingLogs, retrySuccessCount, retryFailCount, uploading>>
  /\ UNCHANGED <<galleryVars, apiVars, loginVars, uploadLogs, impl, selectedFiles, files,
                 uploadProgress, session, logs, i, outcome, submitted, counted,
                 completedCount, failedCount, failedLogs, skippedFiles, errors,
                 batchLog, delays, uploadResult, roomPhotos>>

\* the catch of retryFailedUploads and its finally
retryFailedUploadsCatch ==
  /\ upc = "retryThrew"
  /\ uploading' = FALSE
  /\ upc' = "done"
  /\ UNCHANGED <<galleryVars, apiVars, loginVars, retryVars, impl, selectedFiles, files,
                 uploadProgress, session, logs, i, outcome, submitted, counted,
                 completedCount, failedCount, failedLogs, skippedFiles, errors,
                 batchLog, delays, uploadResult, roomPhotos, faults>>

(* ------------- PhotoUpload (batches): handleUpload and ----------------- *)
(* -------------------- uploadFilesInBatches ----------------------------- *)
(* Here i is batchIndex, the 0-based number of the batch.                  *)

\* handleUpload up to the call of uploadFilesInBatches (user name and room
\* id pass validateInput)
handleUploadInBatches ==
  /\ impl = "batches"
  /\ upc = "idle"
  /\ Len(selectedFiles) > 0
  /\ uploading' = TRUE
  /\ uploadProgress' = 0
  /\ files' = selectedFiles
  /\ outcome' = [k \in 1..Len(selectedFiles) |-> "none"]
  /\ submitted' = [k \in 1..Len(selectedFiles) |-> 0]
  /\ counted' = [k \in 1..Len(selectedFiles) |-> NotCounted]
  /\ errors' = [k \in 1..Len(selectedFiles) |-> 0]
  /\ i' = 0
  /\ upc' = "loop"
  /\ UNCHANGED <<galleryVars, apiVars, loginVars, retryVars, impl, selectedFiles, session, logs, completedCount, failedCount,
                 failedLogs, skippedFiles, batchLog, delays, uploadResult,
                 roomPhotos, faults>>

\* head of the loop body: batch.map starts photoApi.uploadPhoto for every file
startBatchInBatches ==
  /\ impl = "batches"
  /\ upc = "loop"
  /\ i < Len(batches(N))
  /\ LET batch == batches(N)[i + 1] IN
       /\ outcome' = [k \in 1..N |-> IF k \in batch THEN "pending" ELSE outcome[k]]
       /\ submitted' = [k \in 1..N |-> submitted[k] + (IF k \in batch THEN 1 ELSE 0)]
       /\ batchLog' = Append(batchLog, Cardinality(batch))
  /\ upc' = "await"
  /\ UNCHANGED <<galleryVars, apiVars, loginVars, retryVars, impl, selectedFiles, files, uploading, uploadProgress, session, logs,
                 i, counted, completedCount, failedCount, failedLogs, skippedFiles,
                 errors, delays, uploadResult, roomPhotos, faults>>

\* photoApi.uploadPhoto of file k answers: {success: true} or {success: false, error}
uploadSettledInBatches(k) ==
  /\ impl = "batches"
  /\ upc = "await"
  /\ outcome[k] = "pending"
  /\ \E r \in Ingest(files[k], roomPhotos, faults < MaxFaults) :
       /\ outcome' = [outcome EXCEPT ![k] = r.result]
       /\ roomPhotos' = r.photos
       /\ faults' = faults + (IF r.result = "err" THEN 1 ELSE 0)
  /\ UNCHANGED <<galleryVars, apiVars, loginVars, retryVars, impl, selectedFiles, files, upc, uploading, uploadProgress, session,
                 logs, i, submitted, counted, completedCount, failedCount, failedLogs,
                 skippedFiles, errors, batchLog, delays, uploadResult>>

\* Promise.allSettled resolves: tally the batch, update the progress, and either
\* start the delay or go on to the next batch
batchSettledInBatches ==
  /\ impl = "batches"
  /\ upc = "await"
  /\ LET batch == batches(N)[i + 1]
         kindOf == [k \in batch |-> ResultKindInBatches(outcome[k])]
     IN
       /\ AllSettled(batch, outcome)
       /\ IF BatchRejects(batch, outcome)
            THEN /\ upc' = "threw"
                 /\ UNCHANGED <<completedCount, skippedFiles, errors, counted,
                                uploadProgress, i>>
            ELSE /\ completedCount' =
                      completedCount + NumOfKind(kindOf, "completed")
                 /\ skippedFiles' =
                      skippedFiles + NumOfKind(kindOf, "skipped")
                 /\ errors' =
                      PushAll(errors,
                              {k \in batch : kindOf[k] \in {"skipped", "error"}})
                 /\ counted' = CountedAfter(counted, kindOf)
                 /\ uploadProgress' =
                      ((completedCount' + skippedFiles' + Entries(errors')) * 100) \div N
                 /\ IF MoreBatchesInBatches(i, Len(batches(N)))
                      THEN upc' = "delay" /\ i' = i
                      ELSE upc' = "loop" /\ i' = i + 1
  /\ UNCHANGED <<galleryVars, apiVars, loginVars, retryVars, impl, selectedFiles, files, uploading, session, logs, outcome,
                 submitted, failedCount, failedLogs, batchLog, delays, uploadResult,
                 roomPhotos, faults>>

\* await new Promise(resolve => setTimeout(resolve, BATCH_DELAY)), then batchIndex++
batchDelayInBatches ==
  /\ impl = "batches"
  /\ upc = "delay"
  /\ delays' = Append(delays, Len(batchLog))
  /\ i' = i + 1
  /\ upc' = "loop"
  /\ UNCHANGED <<galleryVars, apiVars, loginVars, retryVars, impl, selectedFiles, files, uploading, uploadProgress, session, logs,
                 outcome, submitted, counted, completedCount, failedCount, failedLogs,
                 skippedFiles, errors, batchLog, uploadResult, roomPhotos, faults>>

\* uploadFilesInBatches returns; handleUpload clears the selection, calls
\* onUploadSuccess, reports, and its finally resets uploading and the progress
handleUploadDoneInBatches ==
  /\ impl = "batches"
  /\ upc = "loop"
  /\ ~(i < Len(batches(N)))
  /\ uploadResult' = [set |-> TRUE, total_files |-> N,
                      successful_uploads |-> completedCount,
                      failed_uploads |-> Entries(errors) - skippedFiles,
                      failed_files |-> errors]
  /\ selectedFiles' = <<>>
  /\ uploading' = FALSE
  /\ uploadProgress' = 0
  /\ upc' = "done"
  /\ UNCHANGED <<galleryVars, apiVars, loginVars, retryVars, impl, files, session, logs, i, outcome, submitted, counted,
                 completedCount, failedCount, failedLogs, skippedFiles, errors,
                 batchLog, delays, roomPhotos, faults>>

(* ------------------------- the upload system --------------------------- *)

NextUpload ==
  \/ processFiles
  \/ handleUpload
  \/ createSession
  \/ createLog
  \/ startBatch
  \/ \E k \in DOMAIN outcome : uploadSettled(k)
  \/ batchSettled
  \/ batchDelay
  \/ updateSession
  \/ handleUploadReturned
  \/ handleUploadCatch
  \/ retryFailedUploads
  \/ retryRequested
  \/ getSessionLogs
  \/ retryFailedUploadsCatch
  \/ handleUploadInBatches
  \/ startBatchInBatches
  \/ \E k \in DOMAIN outcome : uploadSettledInBatches(k)
  \/ batchSettledInBatches
  \/ batchDelayInBatches
  \/ handleUploadDoneInBatches

SpecUpload == InitUpload /\ [][NextUpload]_vars

(* --------- PhotoUpload (logging): the upload button pressed again ------ *)

\* the files are selected, the upload button has not been pressed yet
FilesSelected ==
  /\ files = <<>>
  /\ upc = "idle"
  /\ uploading = FALSE
  /\ uploadProgress = 0
  /\ session = NoSession
  /\ logs = <<>>
  /\ i = 0
  /\ outcome = <<>>
  /\ submitted = <<>>
  /\ counted = <<>>
  /\ completedCount = 0
  /\ failedCount = 0
  /\ failedLogs = <<>>
  /\ skippedFiles = 0
  /\ errors = <<>>
  /\ batchLog = <<>>
  /\ delays = <<>>
  /\ uploadResult = NoResult
  /\ roomPhotos = [fp \in Fingerprints |-> 0]
  /\ faults = 0
  /\ uploadLogs = <<>>
  /\ pendingLogs = {}
  /\ retrySuccessCount = 0
  /\ retryFailCount = 0
  /\ selectedFiles \in {fs \in FileLists : Len(fs) <= MaxAgainFiles}
  /\ ApiIdle
  /\ LoginIdle
  /\ likes = [p \in Photos |-> {}]
  /\ dislikes = [p \in Photos |-> {}]
  /\ RoomLoaded
  /\ activeTab = "upload"
  /\ localPhotos = NoGallery.localPhotos
  /\ userLikes = NoGallery.userLikes
  /\ userDislikes = NoGallery.userDislikes
  /\ likesLoaded = NoGallery.likesLoaded

InitAgain ==
  /\ impl = "logging"
  /\ FilesSelected

\* handleUpload pressed after an earlier run has ended: the button is enabled
\* whenever files are selected and nothing is uploading; the run starts over
\* with Array.from(selectedFiles) and fresh locals
handleUploadAgain ==
  /\ impl = "logging"
  /\ upc = "done"
  /\ ~uploading
  /\ Len(selectedFiles) > 0
  /\ uploading' = TRUE
  /\ uploadResult' = NoResult
  /\ uploadProgress' = 0
  /\ files' = selectedFiles
  /\ outcome' = [k \in 1..Len(selectedFiles) |-> "none"]
  /\ submitted' = [k \in 1..Len(selectedFiles) |-> 0]
  /\ counted' = [k \in 1..Len(selectedFiles) |-> NotCounted]
  /\ failedLogs' = [k \in 1..Len(selectedFiles) |-> 0]
  /\ logs' = <<>>
  /\ uploadLogs' = <<>>
  /\ completedCount' = 0
  /\ failedCount' = 0
  /\ batchLog' = <<>>
  /\ delays' = <<>>
  /\ i' = 0
  /\ upc' = "createSession"
  /\ UNCHANGED <<galleryVars, apiVars, loginVars, pendingLogs, retrySuccessCount,
                 retryFailCount, impl, selectedFiles, session, skippedFiles, errors,
                 roomPhotos, faults>>

NextAgain ==
  \/ handleUpload
  \/ createSession
  \/ createLog
  \/ startBatch
  \/ \E k \in DOMAIN outcome : uploadSettled(k)
  \/ batchSettled
  \/ batchDelay
  \/ updateSession
  \/ handleUploadReturned
  \/ handleUploadCatch
  \/ retryFailedUploads
  \/ retryRequested
  \/ getSessionLogs
  \/ retryFailedUploadsCatch
  \/ handleUploadAgain

SpecAgain == InitAgain /\ [][NextAgain]_vars

(* ------------ PhotoUpload: every request eventually settles ----------- *)

\* both uploaders with the files selected
InitLive ==
  /\ impl \in {"logging", "batches"}
  /\ FilesSelected

\* the steps of a running upload that need no user: a request is answered or
\* throws, a promise continuation runs, the delay between two batches expires
UploadStep ==
  \/ createSession
  \/ createLog
  \/ startBatch
  \/ \E k \in DOMAIN outcome : uploadSettled(k)
  \/ batchSettled
  \/ batchDelay
  \/ updateSession
  \/ handleUploadReturned
  \/ handleUploadCatch
  \/ startBatchInBatches
  \/ \E k \in DOMAIN outcome : uploadSettledInBatches(k)
  \/ batchSettledInBatches
  \/ batchDelayInBatches
  \/ handleUploadDoneInBatches
  \/ retryRequested
  \/ getSessionLogs
  \/ retryFailedUploadsCatch

\* what the user does: the upload button (first and later presses) and the
\* retry button
UserStep ==
  \/ handleUpload
  \/ handleUploadAgain
  \/ handleUploadInBatches
  \/ retryFailedUploads

NextLive ==
  \/ UploadStep
  \/ UserStep

\* the event loop runs every continuation that is ready, and every request
\* is answered or throws: no step of a running upload is postponed for ever
SpecLive == InitLive /\ [][NextLive]_vars /\ WF_vars(UploadStep)

(* --------------- PhotoGallery: like and dislike toggles --------------- *)

Mounted == activeTab = "gallery"

visiblePhotos == VisibleIn(localPhotos)

\* the counter and the reaction of the user at the store, and what the gallery
\* shows of them, for one kind and one photo
StoreCount(kind, p) == IF kind = "like" THEN like_count[p] ELSE dislike_count[p]

StoreActive(kind, p) == userName \in (IF kind = "like" THEN likes[p] ELSE dislikes[p])

ShownCount(kind, p) ==
  IF kind = "like" THEN localPhotos[p].like_count ELSE localPhotos[p].dislike_count

ShownFlag(kind, p) == p \in (IF kind = "like" THEN userLikes ELSE userDislikes)

\* counter and flag of one kind and one photo, at the store and as shown
ValuesNow(kind, p) ==
  [count |-> StoreCount(kind, p), active |-> StoreActive(kind, p),
   shown |-> ShownCount(kind, p), flag |-> ShownFlag(kind, p)]

\* observer: a click made while nothing is in flight starts a run of toggles
\* of one kind on one photo, or continues the run of that kind on that photo.
\* n is the number of toggles of the run that took effect, last the values
\* before the latest toggle of the run, first those before the one preceding it.
ProbeOnClick(kind, p) ==
  IF toggles # EmptyBag THEN NoProbe
  ELSE IF probe.kind = kind /\ probe.photo = p /\ probe.n >= 1
    THEN [probe EXCEPT !.first = probe.last, !.last = ValuesNow(kind, p)]
    ELSE [kind |-> kind, photo |-> p, n |-> 0, first |-> ValuesNow(kind, p),
          last |-> ValuesNow(kind, p)]

\* observer: the toggle of request r took effect in the gallery
ProbeOnSettle(r) ==
  IF probe.kind = r.kind /\ probe.photo = r.photo
    THEN [probe EXCEPT !.n = @ + 1]
    ELSE NoProbe

\* the request a click on the button of photo p sends; isActive is
\* userLikes.has(photoId) / userDislikes.has(photoId) of the render whose
\* handler was clicked
NewToggle(kind, p) ==
  [kind |-> kind, photo |-> p, isActive |-> ShownFlag(kind, p), stage |-> "sent",
   live |-> TRUE]

\* the requests in flight
InFlight == BagToSet(toggles)

\* the bag of requests with one more r / with one r less
WithToggle(r) == toggles (+) SetToBag({r})

WithoutToggle(r) == toggles (-) SetToBag({r})

\* request r after the store has answered it: the continuation of a handler
\* whose gallery is unmounted does nothing, the request is over
Answered(r) ==
  IF r.live THEN WithoutToggle(r) (+) SetToBag({[r EXCEPT !.stage = "fulfilled"]})
  ELSE WithoutToggle(r)

\* request r once its gallery is unmounted: its setters are dead
Orphan(r) == [r EXCEPT !.live = FALSE, !.isActive = FALSE]

\* the requests in flight after the gallery was unmounted: those answered are
\* over, those not yet answered still reach the store
Orphaned ==
  LET sent == {r \in InFlight : r.stage = "sent"}
  IN [o \in {Orphan(r) : r \in sent} |->
        SumOver([r \in sent |-> IF Orphan(r) = o THEN CopiesIn(r, toggles) ELSE 0],
                sent)]

\* handleLike up to the await: the like button of a photo shown is clicked
handleLike(p) ==
  /\ Mounted
  /\ p \in visiblePhotos
  /\ clicks < MaxClicks
  /\ toggles' = WithToggle(NewToggle("like", p))
  /\ clicks' = clicks + 1
  /\ probe' = ProbeOnClick("like", p)
  /\ UNCHANGED <<uploadVars, likes, dislikes, like_count, dislike_count, photos,
                 selectedUploader, activeTab, refresh, localPhotos, userLikes,
                 userDislikes, likesLoaded>>

\* handleDislike up to the await
handleDislike(p) ==
  /\ Mounted
  /\ p \in visiblePhotos
  /\ clicks < MaxClicks
  /\ toggles' = WithToggle(NewToggle("dislike", p))
  /\ clicks' = clicks + 1
  /\ probe' = ProbeOnClick("dislike", p)
  /\ UNCHANGED <<uploadVars, likes, dislikes, like_count, dislike_count, photos,
                 selectedUploader, activeTab, refresh, localPhotos, userLikes,
                 userDislikes, likesLoaded>>

\* likeApi.toggleLike reaches the Reaction Store: row and counter in one step
toggleLike(r) ==
  /\ r \in InFlight
  /\ r.kind = "like"
  /\ r.stage = "sent"
  /\ likes' = ToggledRows(likes, r.photo, userName)
  /\ like_count' = ToggledCount(like_count, likes, r.photo, userName)
  /\ toggles' = Answered(r)
  /\ UNCHANGED <<uploadVars, dislikes, dislike_count, photos, selectedUploader,
                 activeTab, refresh, localPhotos, userLikes, userDislikes,
                 likesLoaded, clicks, probe>>

\* dislikeApi.toggleDislike reaches the Reaction Store
toggleDislike(r) ==
  /\ r \in InFlight
  /\ r.kind = "dislike"
  /\ r.stage = "sent"
  /\ dislikes' = ToggledRows(dislikes, r.photo, userName)
  /\ dislike_count' = ToggledCount(dislike_count, dislikes, r.photo, userName)
  /\ toggles' = Answered(r)
  /\ UNCHANGED <<uploadVars, likes, like_count, photos, selectedUploader,
                 activeTab, refresh, localPhotos, userLikes, userDislikes,
                 likesLoaded, clicks, probe>>

\* the request is refused before it changes the store; the catch block of the
\* handler shows the alert and leaves the state of the gallery alone
toggleFailed(r) ==
  /\ r \in InFlight
  /\ r.stage = "sent"
  /\ toggles' = WithoutToggle(r)
  /\ probe' = NoProbe
  /\ UNCHANGED <<uploadVars, likes, dislikes, like_count, dislike_count, photos,
                 selectedUploader, activeTab, refresh, localPhotos, userLikes,
                 userDislikes, likesLoaded, clicks>>

\* handleLike after the await: setUserLikes(prev => ...), then setLocalPhotos
\* with isLiked read from the userLikes of the render that was clicked
likeSettled(r) ==
  /\ r \in InFlight
  /\ r.kind = "like"
  /\ r.stage = "fulfilled"
  /\ toggles' = WithoutToggle(r)
  /\ probe' = ProbeOnSettle(r)
  /\ userLikes' = ToggledSet(userLikes, r.photo)
  /\ localPhotos' = [localPhotos EXCEPT ![r.photo] = WithLikeCount(@, r.isActive)]
  /\ UNCHANGED <<uploadVars, likes, dislikes, like_count, dislike_count, photos,
                 selectedUploader, activeTab, refresh, userDislikes, likesLoaded,
                 clicks>>

\* handleDislike after the await
dislikeSettled(r) ==
  /\ r \in InFlight
  /\ r.kind = "dislike"
  /\ r.stage = "fulfilled"
  /\ toggles' = WithoutToggle(r)
  /\ probe' = ProbeOnSettle(r)
  /\ userDislikes' = ToggledSet(userDislikes, r.photo)
  /\ localPhotos' = [localPhotos EXCEPT ![r.photo] = WithDislikeCount(@, r.isActive)]
  /\ UNCHANGED <<uploadVars, likes, dislikes, like_count, dislike_count, photos,
                 selectedUploader, activeTab, refresh, userLikes, likesLoaded,
                 clicks>>

NextToggles ==
  \/ \E p \in Photos : handleLike(p)
  \/ \E p \in Photos : handleDislike(p)
  \/ \E r \in InFlight : toggleLike(r)
  \/ \E r \in InFlight : toggleDislike(r)
  \/ \E r \in InFlight : toggleFailed(r)
  \/ \E r \in InFlight : likeSettled(r)
  \/ \E r \in InFlight : dislikeSettled(r)

\* one visit of the gallery: likes and dislikes only
SpecToggles == InitGallery /\ [][NextToggles]_vars

(* -------------- RoomPage: tabs, filter and photo refresh -------------- *)

\* the state of the PhotoGallery as one record
Gallery == [localPhotos |-> localPhotos, userLikes |-> userLikes,
            userDislikes |-> userDislikes, likesLoaded |-> likesLoaded]

\* the PhotoGallery after a render of RoomPage with the photos ph, the filter
\* sel and the tab: mounted anew when the tab was not open, else its effect runs
GalleryAfterRender(ph, sel, tab) ==
  IF tab # "gallery" THEN NoGallery
  ELSE IF Mounted THEN PhotosEffect(filteredPhotos(ph, sel), Gallery)
  ELSE PhotosEffect(filteredPhotos(ph, sel), MountedGallery(filteredPhotos(ph, sel)))

\* the effects of a render of RoomPage on the PhotoGallery and on the requests
\* it has in flight: the setters of an unmounted gallery are dead
Rendered(ph, sel, tab) ==
  /\ localPhotos' = GalleryAfterRender(ph, sel, tab).localPhotos
  /\ userLikes' = GalleryAfterRender(ph, sel, tab).userLikes
  /\ userDislikes' = GalleryAfterRender(ph, sel, tab).userDislikes
  /\ likesLoaded' = GalleryAfterRender(ph, sel, tab).likesLoaded
  /\ toggles' = IF tab # "gallery" THEN Orphaned ELSE toggles
  /\ probe' = NoProbe

\* TabNavigation: the other tab is clicked
setActiveTab(tab) ==
  /\ tab # activeTab
  /\ activeTab' = tab
  /\ Rendered(photos, selectedUploader, tab)
  /\ UNCHANGED <<uploadVars, likes, dislikes, like_count, dislike_count, photos,
                 selectedUploader, refresh, clicks>>

\* handleParticipantClick: the tag of a participant is clicked
handleParticipantClick(name) ==
  /\ selectedUploader' = UploaderAfterClick(selectedUploader, name)
  /\ Rendered(photos, UploaderAfterClick(selectedUploader, name), activeTab)
  /\ UNCHANGED <<uploadVars, likes, dislikes, like_count, dislike_count, photos,
                 activeTab, refresh, clicks>>

\* handleUploadSuccess up to the await: PhotoUpload reports the end of an upload
handleUploadSuccess ==
  /\ activeTab = "upload"
  /\ refresh = NoRefresh
  /\ refresh' = [stage |-> "requested", photosData |-> <<>>]
  /\ UNCHANGED <<uploadVars, likes, dislikes, like_count, dislike_count, photos,
                 selectedUploader, activeTab, localPhotos, userLikes, userDislikes,
                 likesLoaded, toggles, clicks, probe>>

\* the server answers the fetch with the photo list as it is now
photosFetched ==
  /\ refresh.stage = "requested"
  /\ refresh' = [stage |-> "fetched",
                 photosData |-> getRoomPhotosWithUserStatus(userName, likes, dislikes,
                                                            like_count, dislike_count)]
  /\ UNCHANGED <<uploadVars, likes, dislikes, like_count, dislike_count, photos,
                 selectedUploader, activeTab, localPhotos, userLikes, userDislikes,
                 likesLoaded, toggles, clicks, probe>>

\* the fetch fails: the catch of handleUploadSuccess logs the error
handleUploadSuccessCatch ==
  /\ refresh.stage = "requested"
  /\ refresh' = NoRefresh
  /\ UNCHANGED <<uploadVars, likes, dislikes, like_count, dislike_count, photos,
                 selectedUploader, activeTab, localPhotos, userLikes, userDislikes,
                 likesLoaded, toggles, clicks, probe>>

\* handleUploadSuccess after the await: setPhotos(photosData), setActiveTab('gallery')
handleUploadSuccessLoaded ==
  /\ refresh.stage = "fetched"
  /\ photos' = refresh.photosData
  /\ activeTab' = "gallery"
  /\ refresh' = NoRefresh
  /\ Rendered(refresh.photosData, selectedUploader, "gallery")
  /\ UNCHANGED <<uploadVars, likes, dislikes, like_count, dislike_count,
                 selectedUploader, clicks>>

NextGallery ==
  \/ \E p \in Photos : handleLike(p)
  \/ \E p \in Photos : handleDislike(p)
  \/ \E r \in InFlight : toggleLike(r)
  \/ \E r \in InFlight : toggleDislike(r)
  \/ \E r \in InFlight : toggleFailed(r)
  \/ \E r \in InFlight : likeSettled(r)
  \/ \E r \in InFlight : dislikeSettled(r)
  \/ \E tab \in {"gallery", "upload"} : setActiveTab(tab)
  \/ \E name \in Users : handleParticipantClick(name)
  \/ handleUploadSuccess
  \/ photosFetched
  \/ handleUploadSuccessCatch
  \/ handleUploadSuccessLoaded

\* one visit of the room: the gallery with tab switches, the participant
\* filter and the refresh of the photo list after an upload
SpecGallery == InitGallery /\ [][NextGallery]_vars

(* ------------- HomePage, CreateRoomPage, RoomPage: sign-in ------------ *)

\* everything outside the pages of sign-in
componentVars ==
  <<galleryVars, apiVars, retryVars, impl, selectedFiles, files, upc, uploading,
    uploadProgress, session, logs, i, outcome, submitted, counted, completedCount,
    failedCount, failedLogs, skippedFiles, errors, batchLog, delays, uploadResult,
    roomPhotos, faults>>

\* the browser starts on the home page with empty storages; one room of
\* somebody else exists, or both do
InitLogin ==
  /\ impl = "logging"
  /\ UploadIdle
  /\ ApiIdle
  /\ likes = [p \in Photos |-> {}]
  /\ dislikes = [p \in Photos |-> {}]
  /\ RoomLoaded
  /\ activeTab = "gallery"
  /\ localPhotos = NoGallery.localPhotos
  /\ userLikes = NoGallery.userLikes
  /\ userDislikes = NoGallery.userDislikes
  /\ likesLoaded = NoGallery.likesLoaded
  /\ rooms \in {{Uuid("a")}, Rooms}
  /\ localUserName = NoName
  /\ roomUsers = [r \in Rooms |-> NoName]
  /\ autoLogin = [r \in Rooms |-> NoName]
  /\ route = "home"
  /\ roomId = NoRoom
  /\ isCreator = FALSE
  /\ loading = FALSE
  /\ showLoginModal = FALSE
  /\ room = NoRoom
  /\ lpc = "idle"
  /\ loginName = NoName
  /\ photosFor = NoName
  /\ modalError = FALSE
  /\ lastRequest = NoRequest

\* roomApi.joinRoom resolves: its two checks pass and the room exists (the
\* server may still refuse or be out of reach)
joinRoomAccepts(rid, name, existing) ==
  /\ validateInputRoomId(rid)
  /\ validateInputUserName(name)
  /\ rid \in existing

\* the router mounts RoomPage for /room/<rid>: useState initial values
MountRoomPage(rid, creator) ==
  /\ route' = "room"
  /\ roomId' = rid
  /\ isCreator' = creator
  /\ loading' = TRUE
  /\ showLoginModal' = FALSE
  /\ room' = NoRoom
  /\ lpc' = "effect"
  /\ loginName' = NoName
  /\ photosFor' = NoName
  /\ modalError' = FALSE

\* navigate('/'): RoomPage is unmounted
UnmountRoomPage ==
  /\ route' = "home"
  /\ roomId' = NoRoom
  /\ isCreator' = FALSE
  /\ loading' = FALSE
  /\ showLoginModal' = FALSE
  /\ room' = NoRoom
  /\ lpc' = "idle"
  /\ loginName' = NoName
  /\ photosFor' = NoName
  /\ modalError' = FALSE

\* HomePage.handleJoinRoom (handlePasswordSubmit stores the same): join, store
\* the name for the room and as the global name, go to the room; or alert
handleJoinRoom(rid, name) ==
  /\ route = "home"
  /\ \E answered \in BOOLEAN :
       IF answered /\ joinRoomAccepts(rid, name, rooms)
         THEN /\ roomUsers' = [roomUsers EXCEPT ![rid] = name]
              /\ localUserName' = name
              /\ MountRoomPage(rid, FALSE)
              /\ UNCHANGED <<rooms, autoLogin, lastRequest>>
         ELSE UNCHANGED loginVars
  /\ UNCHANGED componentVars

\* CreateRoomPage.handleSubmit: create the room, store the creator name as the
\* global name, for the room and as the auto-login flag, join (a failure is
\* ignored), go to the room with ?creator=true; or alert
createRoomHandleSubmit(name) ==
  /\ route = "home"
  /\ rooms # Rooms
  /\ \E answered \in BOOLEAN :
       IF answered /\ validateInputUserName(name)
         THEN LET r == CHOOSE x \in Rooms : x \notin rooms IN
              /\ rooms' = rooms \cup {r}
              /\ localUserName' = name
              /\ roomUsers' = [roomUsers EXCEPT ![r] = name]
              /\ autoLogin' = [autoLogin EXCEPT ![r] = name]
              /\ MountRoomPage(r, TRUE)
              /\ UNCHANGED lastRequest
         ELSE UNCHANGED loginVars
  /\ UNCHANGED componentVars

\* the user opens /room/<rid> by its link
openRoom(rid) ==
  /\ route = "home"
  /\ MountRoomPage(rid, FALSE)
  /\ UNCHANGED <<rooms, localUserName, roomUsers, autoLogin, lastRequest>>
  /\ UNCHANGED componentVars

\* (variant: only the auto-login flag is looked at)
ShowsLoginModalWithoutFlag(flag, stored) == flag = NoName

\* the effect of RoomPage falls through to setShowLoginModal(true): neither an
\* auto-login flag nor a stored name of the room
ShowsLoginModal(flag, stored) == flag = NoName /\ stored = NoName

\* handleLogin(name) up to its first await
handleLogin(name) ==
  /\ showLoginModal' = FALSE
  /\ loading' = TRUE
  /\ loginName' = name
  /\ lpc' = "handleLogin"

\* useEffect of RoomPage
RoomPageEffect ==
  /\ route = "room"
  /\ lpc = "effect"
  /\ IF ShowsLoginModal(autoLogin[roomId], roomUsers[roomId])
       THEN /\ showLoginModal' = TRUE
            /\ loading' = FALSE
            /\ lpc' = "idle"
            /\ UNCHANGED <<autoLogin, localUserName, roomUsers, loginName>>
       ELSE IF autoLogin[roomId] # NoName
         THEN /\ autoLogin' = [autoLogin EXCEPT ![roomId] = NoName]
              /\ localUserName' = autoLogin[roomId]
              /\ roomUsers' = [roomUsers EXCEPT ![roomId] = autoLogin[roomId]]
              /\ handleLogin(autoLogin[roomId])
         ELSE /\ handleLogin(roomUsers[roomId])
              /\ UNCHANGED <<autoLogin, localUserName, roomUsers>>
  /\ UNCHANGED <<rooms, route, roomId, isCreator, room, photosFor, modalError,
                 lastRequest>>
  /\ UNCHANGED componentVars

\* userName && userName.trim().length >= 2 ? getRoomPhotosWithUserStatus(roomId,
\* userName) : getRoomPhotos(roomId): the name the photos are requested for
PhotosRequestName(name) == IF Len(name) >= 2 THEN name ELSE NoName

\* handleLogin after its awaits: the room data is set, or the catch alerts;
\* finally setLoading(false)
handleLoginLoaded ==
  /\ route = "room"
  /\ lpc = "handleLogin"
  /\ \E answered \in BOOLEAN :
       IF answered /\ roomId \in rooms
         THEN room' = roomId /\ photosFor' = PhotosRequestName(loginName)
         ELSE UNCHANGED <<room, photosFor>>
  /\ loading' = FALSE
  /\ lpc' = "idle"
  /\ UNCHANGED <<rooms, localUserName, roomUsers, autoLogin, route, roomId, isCreator,
                 showLoginModal, loginName, modalError, lastRequest>>
  /\ UNCHANGED componentVars

\* (variant: the name is stored before the join is awaited)
roomUsersAfterJoinAlways(users, rid, name, joined) == [users EXCEPT ![rid] = name]

\* UserLoginModal.handleSubmit: the name is stored for the room after
\* await roomApi.joinRoom, that is when the join succeeded
roomUsersAfterJoin(users, rid, name, joined) ==
  IF joined THEN [users EXCEPT ![rid] = name] ELSE users

\* UserLoginModal.handleSubmit: the format checks, the join, the storing of the
\* name and onLogin; or the error of the modal is set
loginModalHandleSubmit(name) ==
  /\ route = "room"
  /\ showLoginModal
  /\ ~loading
  /\ lpc = "idle"
  /\ \E answered \in BOOLEAN :
       LET joined == answered /\ joinRoomAccepts(roomId, name, rooms) IN
         /\ roomUsers' = roomUsersAfterJoin(roomUsers, roomId, name, joined)
         /\ IF joined
              THEN /\ localUserName' = name
                   /\ handleLogin(name)
                   /\ modalError' = FALSE
              ELSE /\ modalError' = TRUE
                   /\ UNCHANGED <<localUserName, showLoginModal, loading, loginName, lpc>>
  /\ UNCHANGED <<rooms, autoLogin, route, roomId, isCreator, room, photosFor,
                 lastRequest>>
  /\ UNCHANGED componentVars

\* onClose of the modal: setShowLoginModal(false); navigate('/')
loginModalClose ==
  /\ route = "room"
  /\ showLoginModal
  /\ UnmountRoomPage
  /\ UNCHANGED <<rooms, localUserName, roomUsers, autoLogin, lastRequest>>
  /\ UNCHANGED componentVars

\* RoomPage renders RoomInfo, the tabs and PhotoGallery or PhotoUpload: none of
\* the three early returns is taken
RoomShown == route = "room" /\ ~loading /\ ~showLoginModal /\ room # NoRoom

\* onBack and the home button of the error page: navigate('/')
navigateHome ==
  /\ route = "room"
  /\ ~loading
  /\ ~showLoginModal
  /\ lpc = "idle"
  /\ UnmountRoomPage
  /\ UNCHANGED <<rooms, localUserName, roomUsers, autoLogin, lastRequest>>
  /\ UNCHANGED componentVars

\* onBlur of the name input of RoomInfo: the name typed is stored for the room
\* and as the global name
nameInputBlur(name) ==
  /\ RoomShown
  /\ roomUsers' = [roomUsers EXCEPT ![roomId] = name]
  /\ localUserName' = name
  /\ UNCHANGED <<rooms, autoLogin, route, roomId, isCreator, loading, showLoginModal,
                 room, lpc, loginName, photosFor, modalError, lastRequest>>
  /\ UNCHANGED componentVars

\* the user name a component of the room page sends: localStorage 'userName'
SentUserName == localUserName

\* PhotoGallery.handleLike / handleDislike, up to the request: the toggle is
\* sent under localStorage 'userName' (likeApi checks its format)
toggleRequest ==
  /\ RoomShown
  /\ SentUserName # NoName
  /\ validateInputUserName(SentUserName)
  /\ lastRequest' = [room |-> roomId, name |-> SentUserName]
  /\ UNCHANGED <<rooms, localUserName, roomUsers, autoLogin, route, roomId, isCreator,
                 loading, showLoginModal, room, lpc, loginName, photosFor, modalError>>
  /\ UNCHANGED componentVars

\* PhotoUpload.handleUpload, up to the first request: the session is created
\* and the files are sent under localStorage 'userName'
uploadRequest ==
  /\ RoomShown
  /\ SentUserName # NoName
  /\ lastRequest' = [room |-> roomId, name |-> SentUserName]
  /\ UNCHANGED <<rooms, localUserName, roomUsers, autoLogin, route, roomId, isCreator,
                 loading, showLoginModal, room, lpc, loginName, photosFor, modalError>>
  /\ UNCHANGED componentVars

NextLogin ==
  \/ \E rid \in TypedRooms, name \in TypedNames : handleJoinRoom(rid, name)
  \/ \E name \in TypedNames : createRoomHandleSubmit(name)
  \/ \E rid \in Rooms : openRoom(rid)
  \/ RoomPageEffect
  \/ handleLoginLoaded
  \/ \E name \in TypedNames : loginModalHandleSubmit(name)
  \/ loginModalClose
  \/ navigateHome
  \/ \E name \in TypedNames : nameInputBlur(name)
  \/ toggleRequest
  \/ uploadRequest

SpecLogin == InitLogin /\ [][NextLogin]_vars

(* ======================= properties of the upload ====================== *)

Settled == {"ok", "dup", "err"}

Terminal == {"completed", "partially_failed", "failed"}

\* number of the sub-batch (1-based) that file k belongs to
SubBatch(k) == ((k - 1) \div BATCH_SIZE) + 1

\* ceil(n / BATCH_SIZE)
CeilBatches(n) == (n + BATCH_SIZE - 1) \div BATCH_SIZE

\* the batch function ran to its end and returned its summary
Returned == uploadResult.set

\* C11: the status of a session changes only from in_progress to completed,
\* partially_failed or failed (after its creation as in_progress), and once it
\* is terminal no step, a retry of its failed logs included, changes its status
\* or its counters.
C11_SessionTerminalOnce ==
  [][/\ session.status \in Terminal => session' = session
     /\ session'.status # session.status =>
          \/ session.status = "none" /\ session'.status = "in_progress"
          \/ session.status = "in_progress" /\ session'.status \in Terminal]_vars

\* a retry of the failed logs of a terminal session has been made
C11_Witness ==
  /\ session.status = "partially_failed"
  /\ upc = "done"
  /\ \E k \in DOMAIN logs : logs[k].status = "retrying"
  /\ session.failed_files > 0

\* a log the retry has reset
Retrying(k) == logs[k].status = "retrying"

LogSteps == {<<"pending", "uploading">>, <<"uploading", "success">>,
             <<"uploading", "failed">>, <<"failed", "retrying">>,
             <<"retrying", "uploading">>}

\* C13: the status of a log only follows pending -> uploading -> {success,
\* failed} and failed -> retrying -> uploading; a retry increments retry_count
\* on the existing entry and creates no entry, and the logs selected for the
\* re-attempt after a retry are those in status retrying.
C13_LogStatusMachine ==
  [][/\ \A k \in DOMAIN logs :
          /\ k \in DOMAIN logs'
          /\ logs'[k].status # logs[k].status =>
               <<logs[k].status, logs'[k].status>> \in LogSteps
          /\ logs'[k].retry_count =
               logs[k].retry_count +
                 (IF logs[k].status = "failed" /\ logs'[k].status = "retrying"
                    THEN 1 ELSE 0)
     /\ (\E k \in DOMAIN logs : logs'[k].status # logs[k].status
                                  /\ logs'[k].status = "retrying")
          => Len(logs') = Len(logs)
     /\ (upc = "getSessionLogs" /\ upc' = "done") =>
          pendingLogs' = {k \in DOMAIN logs' : logs'[k].status = "retrying"}]_vars

\* C14: in the result of a run, the log entry reported for every failed file
\* has status failed, a non-empty error_message and no photo_id, and the log
\* entry of every file that succeeded has status success, a photo_id and no
\* error_message.
C14_ReportedLogsTellOutcome ==
  (impl = "logging" /\ uploadResult.set) =>
    \A k \in DOMAIN outcome :
      /\ outcome[k] \in {"dup", "err"} =>
           /\ uploadResult.failed_files[k] = 1
           /\ ReportedLog(k).status = "failed"
           /\ ReportedLog(k).error_message # ""
           /\ ReportedLog(k).photo_id = 0
      /\ outcome[k] = "ok" =>
           /\ uploadResult.failed_files[k] = 0
           /\ logs[k].status = "success"
           /\ logs[k].photo_id # 0
           /\ logs[k].error_message = ""

C1_SessionCountsAddUp ==
  session.status \in Terminal =>
    /\ session.completed_files + session.failed_files = session.total_files
    /\ session.total_files = Len(files)

C1_Witness ==
  /\ session.status \in Terminal
  /\ session.total_files > BATCH_SIZE
  /\ session.completed_files > 0
  /\ session.failed_files > 0

\* C2: the terminal status is completed iff failed_files = 0, failed iff
\* completed_files = 0 and failed_files > 0, partially_failed in every other case.
C2_TerminalStatusRule ==
  session.status \in Terminal =>
    /\ (session.status = "completed") <=> (session.failed_files = 0)
    /\ (session.status = "failed") <=>
         (session.completed_files = 0 /\ session.failed_files > 0)
    /\ (session.status = "partially_failed") <=>
         (session.completed_files > 0 /\ session.failed_files > 0)
    /\ session.failed_files = Cardinality({k \in DOMAIN outcome : outcome[k] # "ok"})

C2_Witness ==
  /\ session.status = "failed"
  /\ session.failed_files = 2

\* C3: a failed upload never keeps another file from being attempted: no file
\* is submitted twice, a batch once started holds every file up to its end, and
\* a run that got as far as uploading (all logs created) ends only after every
\* file was submitted exactly once, whatever subset of uploads failed.
C3_EveryFileSubmittedOnce ==
  /\ \A k \in DOMAIN submitted : submitted[k] <= 1
  /\ \A k \in DOMAIN submitted :
       submitted[k] = 1 <=> SubBatch(k) <= Len(batchLog)
  /\ (upc \in {"returned", "threw", "done"} /\ (impl = "logging" => Len(logs) = N))
       => \A k \in DOMAIN submitted : submitted[k] = 1

C3_Witness ==
  /\ upc = "done"
  /\ \E j, k \in DOMAIN outcome :
       /\ SubBatch(j) = 1 /\ outcome[j] = "err"
       /\ SubBatch(k) = 3 /\ outcome[k] = "ok" /\ submitted[k] = 1

\* C7: no two Photos of the room share a fingerprint: of the submissions of
\* identical bytes at most one creates a Photo, every duplicate rejection leaves
\* exactly that one Photo, and two submissions of the same bytes that both
\* reached the dedup check end as one success and one duplicate rejection.
C7_OnePhotoPerFingerprint ==
  /\ \A fp \in Fingerprints : roomPhotos[fp] <= 1
  /\ \A fp \in Fingerprints :
       roomPhotos[fp] =
         Cardinality({k \in DOMAIN outcome : files[k] = fp /\ outcome[k] = "ok"})
  /\ \A k \in DOMAIN outcome : outcome[k] = "dup" => roomPhotos[files[k]] = 1
  /\ \A j, k \in DOMAIN outcome :
       (j # k /\ files[j] = files[k] /\ {outcome[j], outcome[k]} \subseteq {"ok", "dup"})
         => {outcome[j], outcome[k]} = {"ok", "dup"}

\* two identical files of one sub-batch, in flight together; the later one won
C7_Witness ==
  \E j, k \in DOMAIN outcome :
    /\ j < k /\ SubBatch(j) = SubBatch(k) /\ files[j] = files[k]
    /\ outcome[j] = "dup" /\ outcome[k] = "ok"

\* C8: N files run as ceil(N/5) sub-batches in input order, all of 5 files but
\* the last, which holds the remainder; the delay is awaited after every
\* sub-batch but the last, and before the next one starts.
C8_BatchStructure ==
  /\ Len(batchLog) <= CeilBatches(N)
  /\ \A b \in DOMAIN batchLog :
       batchLog[b] = IF b < CeilBatches(N) THEN BATCH_SIZE
                     ELSE N - BATCH_SIZE * (CeilBatches(N) - 1)
  /\ \A k \in DOMAIN outcome : outcome[k] # "none" <=> SubBatch(k) <= Len(batchLog)
  /\ delays = [b \in 1..Len(delays) |-> b]
  /\ Len(delays) < CeilBatches(N) \/ N = 0
  /\ Len(batchLog) > 0 => Len(delays) \in {Len(batchLog) - 1, Len(batchLog)}
  /\ upc = "await" => Len(delays) = Len(batchLog) - 1
  /\ Returned => /\ Len(batchLog) = CeilBatches(N)
                 /\ Len(delays) = CeilBatches(N) - 1

\* the scenario of the specification: 7 files run as 5 then 2 with one delay
C8_Witness ==
  /\ Returned
  /\ N = 7
  /\ batchLog = <<5, 2>>
  /\ delays = <<1>>

\* C9: no file of sub-batch k+1 is submitted before every file of sub-batch k
\* has reached an outcome.
C9_BatchesDoNotOverlap ==
  \A j, k \in DOMAIN outcome :
    (SubBatch(j) < SubBatch(k) /\ submitted[k] > 0) => outcome[j] \in Settled

C9_Witness ==
  /\ N > BATCH_SIZE
  /\ outcome[BATCH_SIZE + 1] = "pending"
  /\ \E j \in 1..BATCH_SIZE : outcome[j] = "err"

\* C10: the outcome of each file is recorded exactly once, as completed or as
\* failed and never as both, and as what its upload ended as; the session is
\* finalised only after the outcome of every file has been recorded, and with
\* the counts of these records.
C10_OutcomeRecordedOnce ==
  /\ \A k \in DOMAIN counted :
       /\ SumOver(counted[k], Kinds) <= 1
       /\ counted[k]["completed"] = 1 => outcome[k] = "ok"
       /\ counted[k]["failed"] = 1 => outcome[k] \in {"dup", "err"}
  /\ session.status \in Terminal =>
       /\ \A k \in DOMAIN counted :
            counted[k]["completed"] + counted[k]["failed"] = 1
       /\ session.completed_files =
            Cardinality({k \in DOMAIN counted : counted[k]["completed"] = 1})
       /\ session.failed_files =
            Cardinality({k \in DOMAIN counted : counted[k]["failed"] = 1})

C10_Witness ==
  /\ session.status = "partially_failed"
  /\ N > 2 * BATCH_SIZE
  /\ counted[1]["failed"] = 1
  /\ counted[N]["completed"] = 1

(* ----------------------- reactions: properties ------------------------ *)

\* nothing of the page is in flight
Quiet == toggles = EmptyBag /\ refresh = NoRefresh

\* C4: after any interleaving of toggles, two of them in flight at once
\* included, the counters of a photo equal the numbers of reactions held on
\* it, and once the toggles have been answered the counters the gallery shows
\* and the liked/disliked flags of the user agree with the reactions held.
C4_CountersMatchReactions ==
  /\ \A p \in Photos :
       /\ like_count[p] = Cardinality(likes[p])
       /\ dislike_count[p] = Cardinality(dislikes[p])
  /\ (Mounted /\ Quiet) =>
       \A p \in DOMAIN localPhotos :
         /\ localPhotos[p].like_count = Cardinality(likes[p])
         /\ localPhotos[p].dislike_count = Cardinality(dislikes[p])
         /\ p \in userLikes <=> userName \in likes[p]
         /\ p \in userDislikes <=> userName \in dislikes[p]

C5_VisibleIffNoDislike ==
  (Mounted /\ Quiet) =>
    \A p \in DOMAIN localPhotos : p \in visiblePhotos <=> dislike_count[p] = 0

\* C16: a photo hidden by a dislike can come back: whenever the gallery hides a
\* photo whose only dislike is the user's own, the user can remove that
\* dislike (the dislike toggle of the photo can be clicked), and a photo of the
\* list whose dislike_count is back to 0 is in the visible set again.
C16_HiddenPhotoCanReturn ==
  (Mounted /\ Quiet) =>
    \A p \in DOMAIN localPhotos :
      /\ (p \notin visiblePhotos /\ dislikes[p] = {userName} /\ clicks < MaxClicks)
           => ENABLED handleDislike(p)
      /\ dislike_count[p] = 0 => p \in visiblePhotos

\* C17: like and dislike are independent: a step of a like toggle leaves the
\* dislikes, dislike_count, the disliked flags and the visible set as they are,
\* a step of a dislike toggle leaves the likes, like_count and the liked flags
\* as they are, at the store and in the gallery.
C17_LikeDislikeIndependent ==
  [][/\ (\/ likes' # likes \/ like_count' # like_count \/ userLikes' # userLikes
         \/ \E p \in DOMAIN localPhotos :
              localPhotos'[p].like_count # localPhotos[p].like_count)
          => /\ UNCHANGED <<dislikes, dislike_count, userDislikes>>
             /\ \A p \in DOMAIN localPhotos :
                  localPhotos'[p].dislike_count = localPhotos[p].dislike_count
             /\ VisibleIn(localPhotos') = VisibleIn(localPhotos)
     /\ (\/ dislikes' # dislikes \/ dislike_count' # dislike_count
         \/ userDislikes' # userDislikes
         \/ \E p \in DOMAIN localPhotos :
              localPhotos'[p].dislike_count # localPhotos[p].dislike_count)
          => /\ UNCHANGED <<likes, like_count, userLikes>>
             /\ \A p \in DOMAIN localPhotos :
                  localPhotos'[p].like_count = localPhotos[p].like_count]_vars

\* the user holds a like and a dislike on the same photo, and both show
C17_Witness ==
  \E p \in DOMAIN localPhotos :
    /\ Quiet
    /\ userName \in likes[p] /\ userName \in dislikes[p]
    /\ p \in userLikes /\ p \in userDislikes
    /\ localPhotos[p].like_count = like_count[p]
    /\ localPhotos[p].dislike_count = dislike_count[p]

FilesAnswered(r) == {k \in DOMAIN outcome : outcome[k] = r}

\* C19: in every batch result a duplicate-content rejection (HTTP 409) is
\* reported apart from the genuine errors: the failed uploads of the summary
\* and the failed files of the session count the files that met a genuine
\* error only, no duplicate file is among the failed files reported, and the
\* uploader that keeps a count of skipped files counts the duplicates there.
C19_DuplicateNotFailed ==
  Returned =>
    /\ uploadResult.failed_uploads = Cardinality(FilesAnswered("err"))
    /\ impl = "logging" =>
         /\ session.failed_files = Cardinality(FilesAnswered("err"))
         /\ \A k \in FilesAnswered("dup") : failedLogs[k] = 0
    /\ impl = "batches" => skippedFiles = Cardinality(FilesAnswered("dup"))

\* C19 holds of the uploader without logging
C19_InBatches == impl = "batches" => C19_DuplicateNotFailed

\* the file submissions of the batch upload that are in flight
Submissions == FilesAnswered("pending")

\* C20: at every moment of a batch upload at most 5 file submissions of that
\* batch are in flight (and those in flight belong to one sub-batch).
C20_AtMostFiveInFlight ==
  /\ Cardinality(Submissions) <= 5
  /\ \A k1, k2 \in Submissions : SubBatch(k1) = SubBatch(k2)

\* five submissions of the second sub-batch are in flight at once
C20_Witness ==
  /\ Cardinality(Submissions) = 5
  /\ \E k \in Submissions : SubBatch(k) = 2

\* C21: createLog is called once per file of a session (never more often, and
\* for every file before the uploads begin); no upload of any file is attempted
\* before the log entry of that file, and of every other file, exists; file k
\* is uploaded under the id of the log created for file k: while its upload is
\* in flight that log is the one in status uploading, and when it has succeeded
\* that log carries its photo.
C21_OneLogPerFileBeforeUpload ==
  impl = "logging" =>
    /\ Len(logs) <= N
    /\ upc \in {"loop", "await", "delay", "returned"} => Len(logs) = N
    /\ \A k \in DOMAIN submitted :
         /\ submitted[k] > 0 => Len(logs) = N
         /\ outcome[k] = "pending" => logs[k].status = "uploading"
         /\ outcome[k] = "ok" =>
              logs[k].status = "success" /\ logs[k].photo_id = files[k]

\* the second of three files has been stored while the first and the third
\* are still in flight
C21_Witness ==
  /\ impl = "logging"
  /\ N = 3
  /\ outcome = <<"pending", "ok", "pending">>
  /\ logs[2].status = "success"

\* C22: a slow file does not stall the completion accounting of the other
\* files of its sub-batch: a file whose upload has resolved is accounted in the
\* counters (and with them in the progress) also while a sibling of its
\* sub-batch is still in flight.
C22_AccountedWhenResolved ==
  \A k \in DOMAIN outcome :
    /\ outcome[k] \in Settled
    /\ \E j \in Submissions : SubBatch(j) = SubBatch(k)
    => \E kd \in Kinds : counted[k][kd] = 1

\* C23: a session leaves in_progress only through the client's finalisation at
\* the end of its batch call (updateSession after the last sub-batch, with the
\* status derived from the counters); no other step, a throw and its catch
\* included, changes the status of a session in progress, so a session whose
\* client stops before the finalisation stays in_progress; and no step takes a
\* committed Photo away.
C23_InProgressUntilFinalised ==
  [][/\ session.status = "in_progress" /\ session'.status # "in_progress" =>
          /\ upc = "loop" /\ ~LoopContinues(i, N) /\ upc' = "returned"
          /\ session'.status = finalStatus(completedCount, failedCount)
     /\ \A fp \in Fingerprints : roomPhotos'[fp] >= roomPhotos[fp]]_vars

\* the batch call has ended by a throw after a photo was committed: the
\* session is still in progress
C23_Witness ==
  /\ upc = "done"
  /\ ~Returned
  /\ session.status = "in_progress"
  /\ \E fp \in Fingerprints : roomPhotos[fp] > 0

\* the local liked and disliked sets of the gallery are those of the status
\* the photos it shows carry
Hydrated ==
  /\ userLikes = {p \in DOMAIN localPhotos : localPhotos[p].user_liked}
  /\ userDislikes = {p \in DOMAIN localPhotos : localPhotos[p].user_disliked}

\* C25: whenever the gallery comes to show photos that carry the user's
\* reaction status (its first display after the room is entered or entered
\* again, before any toggle of the user in it), the local liked set is the set
\* of photos with user_liked and the local disliked set is the set of photos
\* with user_disliked.
C25_ReactionsHydrated ==
  [][activeTab # "gallery" /\ activeTab' = "gallery" => Hydrated']_vars

\* file k is the only file of the run with its content
UniqueContent(k) == \A j \in DOMAIN files : files[j] = files[k] => j = k

\* C27: a file that has been uploaded successfully is never submitted again by
\* a later action of the same upload component: whenever a file is submitted
\* whose content no other selected file carries, no Photo of that content is
\* in the room yet (so after a partially failed batch a second press of the
\* upload button, or a retry, sends the failed files only).
C27_UploadedFileNotSentAgain ==
  [][\A k \in DOMAIN submitted :
       /\ DOMAIN submitted' = DOMAIN submitted
       /\ files' = files
       /\ submitted'[k] > submitted[k]
       /\ UniqueContent(k)
       => roomPhotos[files[k]] = 0]_vars

\* the tally of the last sub-batch has been made and the loop is about to end
LastBatchTallied ==
  /\ N > 0
  /\ \/ impl = "logging" /\ upc = "loop" /\ ~LoopContinues(i, N)
     \/ impl = "batches" /\ upc = "loop" /\ ~(i < Len(batches(N)))

\* C28: the progress of a batch upload counts every processed file exactly
\* once: it never exceeds 100 percent, it is exactly 100 percent once the last
\* sub-batch has been tallied, and it never decreases while the batches of
\* one upload are being processed, also with duplicates and failures.
C28_ProgressCountsOnce ==
  /\ [](uploadProgress <= 100)
  /\ [](LastBatchTallied => uploadProgress = 100)
  /\ [][(upc = "await" \/ upc = "delay") => uploadProgress' >= uploadProgress]_vars

\* C29: every batch upload terminates when every request eventually settles:
\* whenever the uploading flag is set, handleUpload (or the retry) comes to
\* its end with the flag false again, whether the files succeed, fail, or a
\* session or log request throws; the upload button is then enabled again
\* for whatever is still selected.
C29_UploadTerminates ==
  /\ uploading ~> (upc = "done" /\ ~uploading)
  /\ [](upc = "done" => ~uploading)

\* a run of two batches ended by the throw of updateSession, the flag is reset
C29_Witness ==
  /\ impl = "logging"
  /\ upc = "done"
  /\ ~uploading
  /\ N > BATCH_SIZE
  /\ Len(batchLog) = 2
  /\ ~uploadResult.set
  /\ \A k \in DOMAIN outcome : outcome[k] \in {"ok", "dup", "err"}

(* ------------------------ validation: properties ----------------------- *)

\* the call of photoApi.uploadPhoto has run its checks
Checked == apiState \notin {"idle", "called"}

\* the arguments have one of the defects: content type outside the allowed
\* set, more than 10 MiB, malformed room id, malformed uploader name
Defective ==
  \/ apiCall.file.type \notin allowedTypes
  \/ apiCall.file.size > 10 * 1024 * 1024
  \/ apiCall.roomId \in BadRoomIds
  \/ apiCall.uploaderName \in BadUserNames

\* a file of exactly 10 MiB in arguments that have no defect at all
ExactlyMaximum ==
  /\ apiCall.file.type \in allowedTypes
  /\ apiCall.file.size = 10 * 1024 * 1024
  /\ apiCall.file.name = <<"a", ".", "j">>
  /\ apiCall.roomId \in GoodRoomIds
  /\ apiCall.uploaderName \in GoodUserNames

\* C18: an upload whose content type is not allowed, whose size exceeds
\* 10 MiB, or whose room id or uploader name is malformed is rejected with a
\* validation error before any side effect: the call throws an Error with a
\* message, no request is ever sent for it and no Photo results from it; a
\* file of exactly 10 MiB is accepted, its request is sent.
C18_RejectedBeforeSideEffect ==
  /\ Defective => apiPosts = 0 /\ apiPhotos = 0
  /\ Checked /\ Defective => apiState = "thrown" /\ apiError # ""
  /\ Checked /\ ExactlyMaximum => apiState # "thrown" /\ apiPosts = 1

\* a file one byte over the maximum, with nothing else wrong, was rejected
C18_Witness ==
  /\ apiState = "thrown"
  /\ apiCall.file.size = 10 * 1024 * 1024 + 1
  /\ apiCall.file.type \in allowedTypes
  /\ apiCall.roomId \in GoodRoomIds
  /\ apiCall.uploaderName \in GoodUserNames
  /\ apiPosts = 0

(* -------------------------- sign-in: properties ------------------------ *)

\* C24: after a room has been created successfully, opening its room page
\* logs the creator in automatically under the creator name: the login modal
\* is never shown on that page, the effect finds the auto-login flag with the
\* creator name, handleLogin is called with that name and the room data loaded
\* is the data requested for it; and the login modal is shown only when there
\* is neither an auto-login flag nor a stored name for the room.
C24_CreatorLoggedInAutomatically ==
  /\ route = "room" /\ isCreator =>
       /\ ~showLoginModal
       /\ lpc = "effect" =>
            autoLogin[roomId] # NoName /\ autoLogin[roomId] = roomUsers[roomId]
       /\ lpc = "handleLogin" =>
            /\ loginName # NoName
            /\ loginName = roomUsers[roomId]
            /\ loginName = localUserName
       /\ room # NoRoom => photosFor # NoName /\ photosFor = loginName
  /\ showLoginModal => autoLogin[roomId] = NoName /\ roomUsers[roomId] = NoName

\* the creator of a room sees the room, loaded for the creator name
C24_Witness ==
  /\ isCreator
  /\ RoomShown
  /\ photosFor = Repeat("Z", 2)
  /\ roomUsers[roomId] = Repeat("Z", 2)

\* C26: in a room, the user name sent with an upload or with a like/dislike
\* toggle equals the name under which the user is logged into that room (the
\* name stored for the room), also after the browser has joined another room
\* under a different name and come back.
C26_RequestsCarryRoomName ==
  [][lastRequest' # lastRequest =>
       /\ lastRequest'.room = roomId
       /\ lastRequest'.name = roomUsers[roomId]]_vars

\* C30: the room page shows the gallery or the upload controls of a room only
\* when a user name has been established for that room and handleLogin has run
\* with a name, and never while the login modal is open or the page is
\* loading; a failed join leaves the stored names unchanged and the modal open.
C30_NoRoomWithoutName ==
  /\ [](/\ RoomShown =>
            /\ roomUsers[roomId] # NoName
            /\ loginName # NoName
            /\ room = roomId
        /\ showLoginModal \/ loading => ~RoomShown /\ room = NoRoom)
  /\ [][showLoginModal /\ modalError' /\ route' = "room" =>
          /\ showLoginModal'
          /\ ~RoomShown'
          /\ roomUsers' = roomUsers
          /\ localUserName' = localUserName
          /\ autoLogin' = autoLogin]_vars

\* a join through the login modal has failed: the modal is open with its
\* error and no name is stored for the room
C30_Witness ==
  /\ showLoginModal
  /\ modalError
  /\ roomUsers[roomId] = NoName
  /\ localUserName = NoName

====
